---------------------------- MODULE Spec2Model ----------------------------
(***************************************************************************)
(* A model of the mouflon key store and playlist decoder of               *)
(* src/stripchat.py (class StripChat): _loadMouflonKeys, getMouflonDecKey, *)
(* m3u_decoder (_decode, _append_params), _getMouflonFromM3U and           *)
(* getPlaylistVariants.                                                    *)
(*                                                                         *)
(* Text is modelled at character level: a Python str is a sequence of      *)
(* one-character strings, and the str / re / urllib / base64 calls the     *)
(* code makes are operators that compute what the library computes on the  *)
(* characters that occur in the model.  Indices are 0-based as in Python.  *)
(***************************************************************************)
EXTENDS Integers, Sequences, FiniteSets, TLC

(***************************************************************************)
(* Characters                                                              *)
(***************************************************************************)

\* The printable ASCII characters, code points 32..126, in order (the grave
\* accent, 96, is written "U+96").
Ascii ==
  <<" ","!","\"","#","$","%","&","'","(",")","*","+",",","-",".","/",
    "0","1","2","3","4","5","6","7","8","9",":",";","<","=",">","?",
    "@","A","B","C","D","E","F","G","H","I","J","K","L","M","N","O",
    "P","Q","R","S","T","U","V","W","X","Y","Z","[","\\","]","^","_",
    "U+96","a","b","c","d","e","f","g","h","i","j","k","l","m","n","o",
    "p","q","r","s","t","u","v","w","x","y","z","{","|","}","~">>

AsciiSet == {Ascii[i] : i \in 1..Len(Ascii)}

\* chr(n): printable ASCII, TAB, LF and CR are themselves; every other code
\* point is the one-character string named "U+<n>".
Chr(n) ==
  IF n >= 32 /\ n <= 126 THEN Ascii[n - 31]
  ELSE IF n = 10 THEN "\n"
  ELSE IF n = 13 THEN "\r"
  ELSE IF n = 9 THEN "\t"
  ELSE "U+" \o ToString(n)

OrdTable == [c \in AsciiSet |-> (CHOOSE i \in 1..Len(Ascii) : Ascii[i] = c) + 31]

\* The code points the model's non-ASCII characters are drawn from.
CodePoints == 0..2047

\* ord(c)
Ord(c) ==
  IF c \in AsciiSet THEN OrdTable[c]
  ELSE IF c = "\n" THEN 10
  ELSE IF c = "\r" THEN 13
  ELSE IF c = "\t" THEN 9
  ELSE CHOOSE n \in CodePoints : Chr(n) = c

IsUpper(c) == c \in AsciiSet /\ OrdTable[c] >= 65 /\ OrdTable[c] <= 90
IsLower(c) == c \in AsciiSet /\ OrdTable[c] >= 97 /\ OrdTable[c] <= 122
IsDigit(c) == c \in AsciiSet /\ OrdTable[c] >= 48 /\ OrdTable[c] <= 57
IsAlpha(c) == IsUpper(c) \/ IsLower(c)
IsAlnum(c) == IsAlpha(c) \/ IsDigit(c)

\* str.lower() on one character
LowerChar(c) == IF IsUpper(c) THEN Chr(OrdTable[c] + 32) ELSE c

Lower(s) == [i \in 1..Len(s) |-> LowerChar(s[i])]

\* The whitespace str.strip() removes, among the model's characters.
Whitespace == {" ", "\t", "\n", "\r"}

(***************************************************************************)
(* Python str operations                                                   *)
(***************************************************************************)

MinOf(a, b) == IF a < b THEN a ELSE b
MaxOf(a, b) == IF a > b THEN a ELSE b

\* A Python index or slice bound brought into 0..n
Clamp(n, a) == IF a < 0 THEN MaxOf(n + a, 0) ELSE MinOf(a, n)

\* s[a:b], with Python's clamping and negative indices
Slice(s, a, b) ==
  IF Clamp(Len(s), a) >= Clamp(Len(s), b) THEN <<>>
  ELSE SubSeq(s, Clamp(Len(s), a) + 1, Clamp(Len(s), b))

\* s[a:]
SliceFrom(s, a) == Slice(s, a, Len(s))

MinSet(S) == CHOOSE i \in S : \A j \in S : i <= j
MaxSet(S) == CHOOSE i \in S : \A j \in S : i >= j

\* The sequences of ss one after the other
RECURSIVE Flatten(_)
Flatten(ss) == IF ss = <<>> THEN <<>> ELSE Head(ss) \o Flatten(Tail(ss))

\* The least index of a set of 0-based indices, or -1 when there is none
FirstIndex(at) == IF at = {} THEN -1 ELSE MinSet(at)

\* s.find(sub, start): the lowest 0-based index at or after start, or -1
Find(s, sub, start) ==
  FirstIndex({i \in start..(Len(s) - Len(sub)) : SubSeq(s, i + 1, i + Len(sub)) = sub})

\* sub in s
Contains(s, sub) == Find(s, sub, 0) >= 0

StartsWith(s, prefix) ==
  Len(prefix) <= Len(s) /\ SubSeq(s, 1, Len(prefix)) = prefix

EndsWith(s, suffix) ==
  Len(suffix) <= Len(s) /\ SubSeq(s, Len(s) - Len(suffix) + 1, Len(s)) = suffix

\* s.split(sep), sep non-empty: always at least one field. SplitAt is the
\* split once the first separator is known to be at i (-1: none).
RECURSIVE Split(_, _)
SplitAt(s, sep, i) ==
  IF i < 0 THEN <<s>>
  ELSE <<Slice(s, 0, i)>> \o Split(SliceFrom(s, i + Len(sep)), sep)

Split(s, sep) == SplitAt(s, sep, Find(s, sep, 0))

\* s.split(sep, 1)
Split1At(s, sep, i) ==
  IF i < 0 THEN <<s>> ELSE <<Slice(s, 0, i), SliceFrom(s, i + Len(sep))>>

Split1(s, sep) == Split1At(s, sep, Find(s, sep, 0))

\* sep.join(parts)
RECURSIVE Join(_, _)
Join(parts, sep) ==
  IF parts = <<>> THEN <<>>
  ELSE IF Len(parts) = 1 THEN parts[1]
  ELSE parts[1] \o sep \o Join(Tail(parts), sep)

\* The 1-based positions of s that hold no whitespace
Inked(s) == {i \in 1..Len(s) : s[i] \notin Whitespace}

StripTo(s, ns) == IF ns = {} THEN <<>> ELSE SubSeq(s, MinSet(ns), MaxSet(ns))
LStripTo(s, ns) == IF ns = {} THEN <<>> ELSE SubSeq(s, MinSet(ns), Len(s))

\* s.strip()
Strip(s) == StripTo(s, Inked(s))

\* s.lstrip()
LStrip(s) == LStripTo(s, Inked(s))

\* s.replace(old, new), old non-empty: every non-overlapping occurrence,
\* left to right
RECURSIVE Replace(_, _, _)
ReplaceAt(s, old, new, i) ==
  IF i < 0 THEN s
  ELSE Slice(s, 0, i) \o new \o Replace(SliceFrom(s, i + Len(old)), old, new)

Replace(s, old, new) == ReplaceAt(s, old, new, Find(s, old, 0))

\* The 1-based position of the first line break of s, or Len(s) + 1
FirstBreak(s) == MinSet({i \in 1..Len(s) : s[i] \in {"\n", "\r"}} \cup {Len(s) + 1})

\* The break at position b is "\r\n" (2) or a lone "\n" or "\r" (1)
BreakWidth(s, b) == IF s[b] = "\r" /\ b < Len(s) /\ s[b + 1] = "\n" THEN 2 ELSE 1

\* s.splitlines(): breaks at "\n", "\r" and "\r\n"; the breaks are dropped and
\* a text that ends with a break has no empty last line.
RECURSIVE SplitLines(_)
SplitLinesAt(s, b) ==
  IF b > Len(s) THEN <<s>>
  ELSE <<SubSeq(s, 1, b - 1)>> \o SplitLines(SliceFrom(s, b - 1 + BreakWidth(s, b)))

SplitLines(s) == IF s = <<>> THEN <<>> ELSE SplitLinesAt(s, FirstBreak(s))

(***************************************************************************)
(* Python values that may be None: a str is wrapped, None is its own value *)
(***************************************************************************)

None == [t |-> "None"]
PyStr(s) == [t |-> "str", s |-> s]
IsStr(v) == v.t = "str"

\* bool(v) for a str or None
Truthy(v) == v.t = "str" /\ v.s # <<>>

(***************************************************************************)
(* Bytes: base64, XOR, UTF-8, SHA-256                                      *)
(***************************************************************************)

\* The standard base64 alphabet; a character's value is its index minus one.
B64Alphabet ==
  <<"A","B","C","D","E","F","G","H","I","J","K","L","M","N","O","P",
    "Q","R","S","T","U","V","W","X","Y","Z","a","b","c","d","e","f",
    "g","h","i","j","k","l","m","n","o","p","q","r","s","t","u","v",
    "w","x","y","z","0","1","2","3","4","5","6","7","8","9","+","/">>

B64Set == {B64Alphabet[i] : i \in 1..Len(B64Alphabet)}

B64Val == [c \in B64Set |-> (CHOOSE i \in 1..Len(B64Alphabet) : B64Alphabet[i] = c) - 1]

IsB64Char(c) == c \in B64Set

\* The bytes of a run of base64 digits whose count is not 1 modulo 4: each
\* digit carries six bits, and byte k takes its eight from the two digits
\* that span it; bits left over at the end are dropped.
B64Bytes(d) ==
  [k \in 1..((Len(d) * 6) \div 8) |->
     LET q == 4 * ((k - 1) \div 3)
         r == (k - 1) % 3
     IN  IF r = 0 THEN B64Val[d[q + 1]] * 4 + (B64Val[d[q + 2]] \div 16)
         ELSE IF r = 1 THEN (B64Val[d[q + 2]] % 16) * 16 + (B64Val[d[q + 3]] \div 4)
         ELSE (B64Val[d[q + 3]] % 4) * 64 + B64Val[d[q + 4]]]

\* base64.b64decode(s + "=="), for s without "=": characters outside the
\* alphabet are discarded, excess padding is accepted, and a digit count of
\* 1 modulo 4 raises binascii.Error.
B64DecodeDigits(d) ==
  IF Len(d) % 4 = 1 THEN [ok |-> FALSE, err |-> "base64"]
  ELSE [ok |-> TRUE, bytes |-> B64Bytes(d)]

B64DecodePadded(s) == B64DecodeDigits(SelectSeq(s, IsB64Char))

\* a ^ b on non-negative integers
RECURSIVE Xor(_, _)
Xor(a, b) ==
  IF a = 0 THEN b
  ELSE IF b = 0 THEN a
  ELSE (((a % 2) + (b % 2)) % 2) + 2 * Xor(a \div 2, b \div 2)

IsCont(b) == b >= 128 /\ b <= 191

\* The length of the UTF-8 sequence that starts at b[i] when that sequence
\* is well formed, and 0 when it is not
Utf8Width(b, i) ==
  IF b[i] < 128 THEN 1
  ELSE IF b[i] >= 194 /\ b[i] <= 223 /\ Len(b) >= i + 1 /\ IsCont(b[i + 1]) THEN 2
  ELSE IF /\ b[i] >= 224 /\ b[i] <= 239 /\ Len(b) >= i + 2
          /\ IsCont(b[i + 1]) /\ IsCont(b[i + 2])
          /\ (b[i] = 224 => b[i + 1] >= 160)
          /\ (b[i] = 237 => b[i + 1] <= 159) THEN 3
  ELSE IF /\ b[i] >= 240 /\ b[i] <= 244 /\ Len(b) >= i + 3
          /\ IsCont(b[i + 1]) /\ IsCont(b[i + 2]) /\ IsCont(b[i + 3])
          /\ (b[i] = 240 => b[i + 1] >= 144)
          /\ (b[i] = 244 => b[i + 1] <= 143) THEN 4
  ELSE 0

\* The code point of the well-formed sequence of width w at b[i]
Utf8CodePoint(b, i, w) ==
  IF w = 1 THEN b[i]
  ELSE IF w = 2 THEN (b[i] - 192) * 64 + (b[i + 1] - 128)
  ELSE IF w = 3 THEN (b[i] - 224) * 4096 + (b[i + 1] - 128) * 64 + (b[i + 2] - 128)
  ELSE (b[i] - 240) * 262144 + (b[i + 1] - 128) * 4096
       + (b[i + 2] - 128) * 64 + (b[i + 3] - 128)

\* The positions of b that hold no continuation byte: where sequences start
Utf8Starts(b) == {i \in 1..Len(b) : ~IsCont(b[i])}

\* Every sequence is well formed and is followed by the next
Utf8Valid(b, starts) ==
  /\ (b # <<>> => 1 \in starts)
  /\ \A i \in starts :
       /\ Utf8Width(b, i) > 0
       /\ (i + Utf8Width(b, i) <= Len(b) => i + Utf8Width(b, i) \in starts)

\* The k-th least member of starts
Utf8Nth(starts, k) == CHOOSE i \in starts : Cardinality({j \in starts : j <= i}) = k

Utf8CharAt(b, i) == Chr(Utf8CodePoint(b, i, Utf8Width(b, i)))

Utf8DecodeFrom(b, starts) ==
  IF ~Utf8Valid(b, starts) THEN [ok |-> FALSE, err |-> "utf-8"]
  ELSE [ok |-> TRUE,
        s |-> [k \in 1..Cardinality(starts) |-> Utf8CharAt(b, Utf8Nth(starts, k))]]

\* bytes.decode("utf-8") (strict): the text, or UnicodeDecodeError
Utf8Decode(b) ==
  IF \A i \in 1..Len(b) : b[i] < 128
  THEN [ok |-> TRUE, s |-> [i \in 1..Len(b) |-> Chr(b[i])]]
  ELSE Utf8DecodeFrom(b, Utf8Starts(b))

\* The UTF-8 bytes of one code point below 65536
Utf8Char(n) ==
  IF n < 128 THEN <<n>>
  ELSE IF n < 2048 THEN <<192 + (n \div 64), 128 + (n % 64)>>
  ELSE <<224 + (n \div 4096), 128 + ((n \div 64) % 64), 128 + (n % 64)>>

\* str.encode("utf-8")
Utf8Encode(s) == Flatten([i \in 1..Len(s) |-> Utf8Char(Ord(s[i]))])

(***************************************************************************)
(* urllib.parse                                                            *)
(***************************************************************************)

\* urllib.parse.scheme_chars
IsSchemeChar(c) == IsAlnum(c) \/ c \in {"+", "-", "."}

\* url.lstrip(_WHATWG_C0_CONTROL_OR_SPACE), among the model's characters
LStripC0(s) == LStrip(s)

IsSafeUrlChar(c) == c \notin {"\t", "\r", "\n"}

\* The first of "/", "?", "#" at or after start, or len(url): _splitnetloc
NetlocEnd(url, start) ==
  MinSet(({Find(url, <<c>>, start) : c \in {"/", "?", "#"}} \ {-1}) \cup {Len(url)})

\* urlsplit, last step: the query is what follows the first "?"
SplitQuery(scheme, netloc, url, fragment, qAt) ==
  [ok |-> TRUE, scheme |-> scheme, netloc |-> netloc,
   path |-> IF qAt >= 0 THEN Slice(url, 0, qAt) ELSE url,
   query |-> IF qAt >= 0 THEN SliceFrom(url, qAt + 1) ELSE <<>>,
   fragment |-> fragment]

\* urlsplit: the fragment is what follows the first "#"
SplitFragment(scheme, netloc, url, hashAt) ==
  IF hashAt >= 0
  THEN SplitQuery(scheme, netloc, Slice(url, 0, hashAt), SliceFrom(url, hashAt + 1),
                  Find(Slice(url, 0, hashAt), <<"?">>, 0))
  ELSE SplitQuery(scheme, netloc, url, <<>>, Find(url, <<"?">>, 0))

\* urlsplit: a netloc with one square bracket and not the other is a ValueError
SplitChecked(scheme, netloc, url) ==
  IF Contains(netloc, <<"[">>) # Contains(netloc, <<"]">>) THEN [ok |-> FALSE]
  ELSE SplitFragment(scheme, netloc, url, Find(url, <<"#">>, 0))

\* urlsplit: the netloc follows "//" and runs to the first of "/", "?", "#"
SplitNetloc(scheme, url) ==
  IF Slice(url, 0, 2) = <<"/", "/">>
  THEN SplitChecked(scheme, Slice(url, 2, NetlocEnd(url, 2)),
                    SliceFrom(url, NetlocEnd(url, 2)))
  ELSE SplitChecked(scheme, <<>>, url)

\* urlsplit: the scheme is what precedes the first ":", when that is a
\* letter followed by scheme characters
SplitScheme(url, i) ==
  IF i > 0 /\ IsAlpha(url[1]) /\ \A j \in 1..i : IsSchemeChar(url[j])
  THEN SplitNetloc(Lower(Slice(url, 0, i)), SliceFrom(url, i + 1))
  ELSE SplitNetloc(<<>>, url)

UrlSplitClean(url) == SplitScheme(url, Find(url, <<":">>, 0))

\* urllib.parse.urlsplit(url): the five components, or ValueError
UrlSplit(url0) == UrlSplitClean(SelectSeq(LStripC0(url0), IsSafeUrlChar))

\* urllib.parse.uses_netloc
UsesNetloc ==
  { <<>>, <<"f","t","p">>, <<"h","t","t","p">>, <<"h","t","t","p","s">>,
    <<"f","i","l","e">>, <<"w","s">>, <<"w","s","s">>, <<"r","t","s","p">> }

\* urlunsplit: "//" + netloc before the path
WithNetloc(scheme, netloc, path) ==
  IF netloc # <<>>
     \/ (scheme # <<>> /\ scheme \in UsesNetloc /\ Slice(path, 0, 2) # <<"/", "/">>)
  THEN <<"/", "/">> \o netloc
       \o (IF path # <<>> /\ path[1] # "/" THEN <<"/">> ELSE <<>>)
       \o path
  ELSE path

WithScheme(scheme, url) == IF scheme # <<>> THEN scheme \o <<":">> \o url ELSE url
WithQuery(url, query) == IF query # <<>> THEN url \o <<"?">> \o query ELSE url
WithFragment(url, fragment) == IF fragment # <<>> THEN url \o <<"#">> \o fragment ELSE url

\* urllib.parse.urlunsplit((scheme, netloc, path, query, fragment))
UrlUnsplit(scheme, netloc, path, query, fragment) ==
  WithFragment(WithQuery(WithScheme(scheme, WithNetloc(scheme, netloc, path)), query),
               fragment)

HexDigits == <<"0","1","2","3","4","5","6","7","8","9","A","B","C","D","E","F">>

IsHex(c) == IsDigit(c) \/ LowerChar(c) \in {"a","b","c","d","e","f"}

HexVal(c) ==
  IF IsDigit(c) THEN OrdTable[c] - 48 ELSE OrdTable[LowerChar(c)] - 87

\* s holds a %XX escape at 1-based position i
IsEscape(s, i) ==
  i >= 1 /\ i + 2 <= Len(s) /\ s[i] = "%" /\ IsHex(s[i + 1]) /\ IsHex(s[i + 2])

EscapeByte(s, i) == HexVal(s[i + 1]) * 16 + HexVal(s[i + 2])

\* urllib.parse.unquote(s): %XX below 128 is its character; a %XX of 128 and
\* above is the replacement character U+FFFD (errors='replace')
Unquote(s) ==
  IF ~Contains(s, <<"%">>) THEN s
  ELSE Flatten([i \in 1..Len(s) |->
         IF IsEscape(s, i)
         THEN <<IF EscapeByte(s, i) < 128 THEN Chr(EscapeByte(s, i)) ELSE Chr(65533)>>
         ELSE IF IsEscape(s, i - 1) \/ IsEscape(s, i - 2) THEN <<>>
         ELSE <<s[i]>>])

\* One field of parse_qsl: nv[i].replace('+', ' ') then unquote
UnquotePlus(s) == Unquote(Replace(s, <<"+">>, <<" ">>))

\* urllib.parse.parse_qsl(qs, keep_blank_values=True): the (name, value)
\* pairs in order; empty fields are skipped, a field without "=" has the
\* value ''
ParsePair(nv) ==
  <<UnquotePlus(nv[1]), IF Len(nv) = 2 THEN UnquotePlus(nv[2]) ELSE <<>> >>

RECURSIVE ParseFields(_)
ParseFields(fields) ==
  IF fields = <<>> THEN <<>>
  ELSE IF fields[1] = <<>> THEN ParseFields(Tail(fields))
  ELSE <<ParsePair(Split1(fields[1], <<"=">>))>> \o ParseFields(Tail(fields))

ParseQsl(qs) == IF qs = <<>> THEN <<>> ELSE ParseFields(Split(qs, <<"&">>))

\* The names of a pair list, each once, in order of first occurrence: the
\* keys of the dict parse_qs builds
RECURSIVE QsNames(_, _)
QsNames(pairs, seen) ==
  IF pairs = <<>> THEN <<>>
  ELSE IF pairs[1][1] \in seen THEN QsNames(Tail(pairs), seen)
  ELSE <<pairs[1][1]>> \o QsNames(Tail(pairs), seen \cup {pairs[1][1]})

\* The values of one name, in order: parsed_result[name]
RECURSIVE QsValues(_, _)
QsValues(pairs, name) ==
  IF pairs = <<>> THEN <<>>
  ELSE (IF pairs[1][1] = name THEN <<pairs[1][2]>> ELSE <<>>)
       \o QsValues(Tail(pairs), name)

\* urllib.parse.parse_qs(qs, keep_blank_values=True): the dict as a sequence
\* of [k, v] items in insertion order, v the list of the name's values
GroupByName(pairs, names) ==
  [i \in 1..Len(names) |-> [k |-> names[i], v |-> QsValues(pairs, names[i])]]

GroupPairs(pairs) == GroupByName(pairs, QsNames(pairs, {}))

ParseQs(qs) == GroupPairs(ParseQsl(qs))

\* name in q
InDict(q, name) == \E i \in 1..Len(q) : q[i].k = name

\* q[name] = value on an insertion-ordered dict: a present key keeps its place
DictSet(q, name, value) ==
  IF InDict(q, name)
  THEN [i \in 1..Len(q) |-> IF q[i].k = name THEN [k |-> name, v |-> value] ELSE q[i]]
  ELSE Append(q, [k |-> name, v |-> value])

\* q[name]
DictGet(q, name) == q[CHOOSE i \in 1..Len(q) : q[i].k = name].v

\* _ALWAYS_SAFE
IsAlwaysSafe(c) == IsAlnum(c) \/ c \in {"_", ".", "-", "~"}

PercentByte(b) == <<"%", HexDigits[(b \div 16) + 1], HexDigits[(b % 16) + 1]>>

PercentBytes(bs) == Flatten([i \in 1..Len(bs) |-> PercentByte(bs[i])])

\* urllib.parse.quote_plus(s)
QuotePlus(s) ==
  IF \A i \in 1..Len(s) : IsAlwaysSafe(s[i]) THEN s
  ELSE Flatten([i \in 1..Len(s) |->
         IF s[i] = " " THEN <<"+">>
         ELSE IF IsAlwaysSafe(s[i]) THEN <<s[i]>>
         ELSE PercentBytes(Utf8Char(Ord(s[i])))])

\* urllib.parse.urlencode({k: v[0] for k, v in q.items()})
UrlEncodeFirst(q) ==
  Join([i \in 1..Len(q) |-> QuotePlus(q[i].k) \o <<"=">> \o QuotePlus(q[i].v[1])],
       <<"&">>)

\* A JSON number and a JSON array, as json.load returns them
PyInt(n) == [t |-> "int", n |-> n]
PyList == [t |-> "list"]

\* bool(v)
IsTrue(v) ==
  \/ v.t = "str" /\ v.s # <<>>
  \/ v.t = "int" /\ v.n # 0

\* hash(v) is defined: a list is unhashable and cannot be a dict key
Hashable(v) == v.t # "list"

\* v[:4] is defined
Subscriptable(v) == v.t \in {"str", "list"}

(***************************************************************************)
(* The key store: _FALLBACK_KEYS, _loadMouflonKeys, getMouflonDecKey       *)
(***************************************************************************)

PKEY_OOK == <<"O","o","k","7","q","u","a","i","N","g","i","y","u","h","a","i">>
PDKEY_OOK == <<"$","i","P","R","U","U","0","A","n","x","o","O","S","i","f","9">>
PKEY_ZEE == <<"Z","e","e","c","h","o","e","j","4","a","l","e","e","s","h","i">>
PDKEY_ZEE == <<"u","b","a","h","j","a","e","7","g","o","P","o","o","d","i","6">>

\* _FALLBACK_KEYS, in the order the dict literal lists them
FALLBACK_KEYS ==
  << [k |-> PyStr(PKEY_OOK), v |-> PyStr(PDKEY_OOK)],
     [k |-> PyStr(PKEY_ZEE), v |-> PyStr(PDKEY_ZEE)] >>

\* The least length of a key-id and of a decode key in a Format B entry
MinKeyLen == 12

\* The file mouflon_keys.json as _loadMouflonKeys meets it:
\*   missing  os.path.exists is false
\*   invalid  open or json.load raises
\*   nondict  the JSON text is not an object
\*   dict     a JSON object: items in file order, member names are strings
ConfigMissing == [kind |-> "missing"]
ConfigInvalid == [kind |-> "invalid"]
ConfigNonDict == [kind |-> "nondict"]
ConfigDict(items) == [kind |-> "dict", items |-> items]

S_pkey == <<"p","k","e","y">>
S_pdkey == <<"p","d","k","e","y">>

\* Lines 86-89, Format A: cls._mouflon_keys[data['pkey']] = data['pdkey'];
\* an unhashable pkey raises before the store changes, and the print that
\* follows (data["pkey"][:4]) raises after it; both are caught at line 97.
LoadFormatA(keys, data) ==
  IF Hashable(DictGet(data, PyStr(S_pkey)))
  THEN DictSet(keys, DictGet(data, PyStr(S_pkey)), DictGet(data, PyStr(S_pdkey)))
  ELSE keys

\* Lines 92-94, Format B: the entries whose name and value are strings of
\* at least MinKeyLen characters
AcceptsEntry(k, v) ==
  IsStr(k) /\ IsStr(v) /\ Len(k.s) >= MinKeyLen /\ Len(v.s) >= MinKeyLen

RECURSIVE LoadFormatB(_, _)
LoadFormatB(keys, data) ==
  IF data = <<>> THEN keys
  ELSE LoadFormatB(IF AcceptsEntry(data[1].k, data[1].v)
                   THEN DictSet(keys, data[1].k, data[1].v) ELSE keys,
                   Tail(data))

\* Lines 78-98: the store after the config file has been tried
LoadConfig(keys, config) ==
  IF config.kind # "dict" THEN keys
  ELSE IF InDict(config.items, PyStr(S_pkey)) /\ InDict(config.items, PyStr(S_pdkey))
  THEN LoadFormatA(keys, config.items)
  ELSE LoadFormatB(keys, config.items)

\* AddFallback without its test "k not in cls._mouflon_keys"
RECURSIVE AddFallback_Overwrite(_, _)
AddFallback_Overwrite(keys, fb) ==
  IF fb = <<>> THEN keys
  ELSE AddFallback_Overwrite(DictSet(keys, fb[1].k, fb[1].v), Tail(fb))

\* Lines 100-103: the fallback entries whose key-id the store does not hold
RECURSIVE AddFallback(_, _)
AddFallback(keys, fb) ==
  IF fb = <<>> THEN keys
  ELSE AddFallback(IF InDict(keys, fb[1].k) THEN keys
                   ELSE DictSet(keys, fb[1].k, fb[1].v),
                   Tail(fb))

EmptyDict == <<>>

\* The class attributes _loadMouflonKeys reads and writes
\*   loaded  _keys_loaded     keys  _mouflon_keys (None, or the dict's items)
\*   warned  _keys_warned
\* Lines 75-106, _loadMouflonKeys past its guard: keys is the dict line 76
\* leaves in _mouflon_keys
LoadInto(st, keys, config) ==
  [loaded |-> TRUE,
   keys   |-> [t |-> "dict", d |-> keys],
   warned |-> st.warned \/ keys = EmptyDict]

\* _loadMouflonKeys without its guard "if cls._keys_loaded: return"
LoadMouflonKeys_NoGuard(st, config) ==
  LoadInto(st,
           AddFallback(LoadConfig(IF st.keys = None THEN EmptyDict ELSE st.keys.d,
                                  config),
                       FALLBACK_KEYS),
           config)

\* _loadMouflonKeys as one call
LoadMouflonKeys(st, config) ==
  IF st.loaded THEN st
  ELSE LoadInto(st,
                AddFallback(LoadConfig(IF st.keys = None THEN EmptyDict ELSE st.keys.d,
                                       config),
                            FALLBACK_KEYS),
                config)

\* Lines 164-186 of getMouflonDecKey, after its call of _loadMouflonKeys: the
\* value returned, or the exception raised. keys is _mouflon_keys and pkey the
\* argument (a str or None).
SuccIndex(r) == IF r = 0 THEN 0 ELSE r + 1

\* The 1-based index of the first entry whose key-id is not in
\* _FALLBACK_KEYS, or 0
RECURSIVE FirstNonFallback(_)
FirstNonFallback(d) ==
  IF d = <<>> THEN 0
  ELSE IF ~InDict(FALLBACK_KEYS, d[1].k) THEN 1
  ELSE SuccIndex(FirstNonFallback(Tail(d)))

Return(v) == [kind |-> "return", val |-> v]
Raise(e) == [kind |-> "raise", exc |-> e]

\* Lines 172-182: the first entry that is no fallback entry, at index i, or
\* the first entry when there is none (i = 0)
AnyDecKey(d, i) ==
  IF i > 0 THEN (IF Subscriptable(d[i].k) THEN Return(d[i].v) ELSE Raise("TypeError"))
  ELSE Return(d[1].v)

LookupDecKey(keys, pkey) ==
  IF ~IsTrue(pkey) THEN Return(None)
  ELSE IF keys = None THEN Raise("TypeError")
  ELSE IF InDict(keys.d, pkey) THEN Return(DictGet(keys.d, pkey))
  ELSE IF keys.d # EmptyDict THEN AnyDecKey(keys.d, FirstNonFallback(keys.d))
  ELSE Return(None)

\* getMouflonDecKey(pkey) as one call: the class attributes after it and its outcome
ResolveIn(st1, pkey, out) ==
  [st  |-> [st1 EXCEPT !.warned =
               @ \/ (out = Return(None) /\ IsTrue(pkey) /\ st1.keys.d = EmptyDict)],
   out |-> out]

ResolveLoaded(st1, pkey) == ResolveIn(st1, pkey, LookupDecKey(st1.keys, pkey))

GetMouflonDecKey(st, config, pkey) == ResolveLoaded(LoadMouflonKeys(st, config), pkey)

(***************************************************************************)
(* m3u_decoder: _decode, _getMouflonFromM3U, _append_params, the line loop *)
(***************************************************************************)

S_mouflon == <<"#","E","X","T","-","X","-","M","O","U","F","L","O","N",":">>
mouflon_file_attr ==
  <<"#","E","X","T","-","X","-","M","O","U","F","L","O","N",":","F","I","L","E",":">>
mouflon_filename == <<"m","e","d","i","a",".","m","p","4">>
S_map == <<"#","E","X","T","-","X","-","M","A","P",":">>
S_part == <<"#","E","X","T","-","X","-","P","A","R","T",":">>
S_http == <<"h","t","t","p",":","/","/">>
S_https == <<"h","t","t","p","s",":","/","/">>
S_uri == <<"U","R","I","=","\"">>
S_psch == <<"p","s","c","h">>
S_v1 == <<"v","1">>
PDKEY_B == <<"B","B","B","B","B","B","B","B","B","B","B","B">>
PDKEY_SHORT == <<"s","h","o","r","t">>

\* The delivery-edge hosts _append_params looks for in the netloc
EdgeHosts ==
  { <<"d","o","p","p","i","o","c","d","n",".","c","o","m">>,
    <<"d","o","p","p","i","o","c","d","n",".","n","e","t">>,
    <<"d","o","p","p","i","o","c","d","n",".","o","r","g">> }

\* hashlib.sha256(key.encode("utf-8")).digest(), tabulated for the decode
\* keys of the model
Sha256Digest(key) ==
  CASE key = PDKEY_OOK ->
         <<23,44,26,134,100,43,118,12,153,203,180,119,162,255,41,38,
           22,102,194,134,244,109,28,167,173,210,156,93,245,17,144,135>>
    [] key = PDKEY_ZEE ->
         <<24,192,127,76,9,211,130,43,127,8,94,217,22,128,237,206,
           228,190,24,107,129,1,149,116,20,246,165,11,75,87,226,187>>
    [] key = PDKEY_B ->
         <<166,93,31,202,134,252,220,90,58,169,172,27,161,243,130,198,
           0,246,122,84,112,186,80,61,115,173,49,232,224,198,16,197>>
    [] key = PDKEY_SHORT ->
         <<249,176,7,139,93,245,150,210,234,25,1,12,0,27,189,0,
           158,101,29,226,197,126,143,183,227,85,243,30,185,211,247,57>>

\* XorCycle with zip(data, mask): the mask is used once and not cycled
XorCycle_NoCycle(data, mask) ==
  [i \in 1..MinOf(Len(data), Len(mask)) |-> Xor(data[i], mask[i])]

\* bytes(a ^ b for (a, b) in zip(data, itertools.cycle(mask)))
XorCycle(data, mask) ==
  IF mask = <<>> THEN <<>>
  ELSE [i \in 1..Len(data) |-> Xor(data[i], mask[((i - 1) % Len(mask)) + 1])]

\* Lines 194-197: _cached_keys after _decode has looked the key up. cache
\* is None or the dict's items; a key that is no str raises at key.encode.
CacheLookup(cache, key) ==
  LET c0 == IF cache = None THEN EmptyDict ELSE cache.d
  IN  [t |-> "dict",
       d |-> IF IsStr(key) /\ ~InDict(c0, key)
             THEN DictSet(c0, key, Sha256Digest(key.s)) ELSE c0]

\* Lines 198-199: the bytes XORed with the cycled mask, read as UTF-8
DecodeBytes(encrypted_data, hash_bytes) ==
  IF ~encrypted_data.ok THEN encrypted_data
  ELSE Utf8Decode(XorCycle(encrypted_data.bytes, hash_bytes))

\* Lines 196-199 of _decode: the text, or the exception. The mask is the
\* entry the cache holds for the key after the lookup.
Decode(encrypted_b64, key, cache) ==
  IF ~IsStr(key) THEN [ok |-> FALSE, err |-> "key"]
  ELSE DecodeBytes(B64DecodePadded(encrypted_b64),
                   DictGet(CacheLookup(cache, key).d, key))

\* Lines 270-274: the fields of the directive line
MouflonFields(mouflon) ==
  IF Len(mouflon) >= 4
  THEN [psch |-> PyStr(mouflon[3]), pkey |-> PyStr(mouflon[4])]
  ELSE [psch |-> None, pkey |-> None]

\* Lines 266-269: the text from the first '#EXT-X-MOUFLON:' to the next '\n'
\* (find's -1 when there is none), stripped and split at ':'
MouflonAt(m3u8_doc, mouflon_start) ==
  IF mouflon_start < 0 THEN [psch |-> None, pkey |-> None]
  ELSE MouflonFields(Split(Strip(Slice(m3u8_doc, mouflon_start,
                                       Find(m3u8_doc, <<"\n">>, mouflon_start))),
                           <<":">>))

\* _getMouflonFromM3U(m3u8_doc): (psch, pkey), each a str or None
GetMouflonFromM3U(m3u8_doc) == MouflonAt(m3u8_doc, Find(m3u8_doc, S_mouflon, 0))

\* Lines 203-204: psch is 'v1' when the directive names a key-id and no scheme
DefaultPsch(m) ==
  IF ~IsTrue(m.psch) /\ IsTrue(m.pkey) THEN PyStr(S_v1) ELSE m.psch

\* Lines 216-221: q[name] = [value] when value is set and q lacks the name
AddParam(q, name, value) ==
  IF IsTrue(value) /\ ~InDict(q, name) THEN DictSet(q, name, <<value.s>>) ELSE q

\* Rebuild without its test "if not changed: return url"
Rebuild_Always(url, p, q, added) ==
  UrlUnsplit(p.scheme, p.netloc, p.path, UrlEncodeFirst(added), p.fragment)

\* Lines 222-225: the url as it was when nothing was added (changed is
\* False), else rebuilt around the new query
Rebuild(url, p, q, added) ==
  IF added = q THEN url
  ELSE UrlUnsplit(p.scheme, p.netloc, p.path, UrlEncodeFirst(added), p.fragment)

AddParams(url, p, q, psch, pkey) ==
  Rebuild(url, p, q, AddParam(AddParam(q, S_psch, psch), S_pkey, pkey))

\* Lines 211-214: only a netloc that contains a delivery-edge host
AppendParamsTo(url, p, psch, pkey) ==
  IF ~p.ok THEN url
  ELSE IF ~\E h \in EdgeHosts : Contains(p.netloc, h) THEN url
  ELSE AddParams(url, p, ParseQs(p.query), psch, pkey)

\* _append_params(url) with the psch and pkey of the enclosing call
AppendParams(url, psch, pkey) == AppendParamsTo(url, UrlSplit(url), psch, pkey)

\* re.search(r'URI="([^"]+)"', line) from index start: the 0-based start of
\* the leftmost match and the end of its group, or start = -1
RECURSIVE UriSearch(_, _)
UriClose(line, i, j) ==
  IF j < 0 THEN [start |-> -1, stop |-> -1]
  ELSE IF j = i + Len(S_uri) THEN UriSearch(line, i + 1)
  ELSE [start |-> i, stop |-> j]

UriOpen(line, i) ==
  IF i < 0 THEN [start |-> -1, stop |-> -1]
  ELSE UriClose(line, i, Find(line, <<"\"">>, i + Len(S_uri)))

UriSearch(line, start) == UriOpen(line, Find(line, S_uri, start))

\* re.sub(r'URI="([^"]+)"', f'URI="{new_uri}"', line): every match, left to
\* right, becomes the same replacement
RECURSIVE UriSub(_, _)
UriSubAt(line, new_uri, m) ==
  IF m.start < 0 THEN line
  ELSE Slice(line, 0, m.start) \o S_uri \o new_uri \o <<"\"">>
       \o UriSub(SliceFrom(line, m.stop + 1), new_uri)

UriSub(line, new_uri) == UriSubAt(line, new_uri, UriSearch(line, 0))

\* Lines 247-251 and 253-257: a tag line with a quoted URI attribute
RewriteUriAt(line, m, psch, pkey) ==
  IF m.start < 0 THEN line
  ELSE UriSub(line, AppendParams(Slice(line, m.start + Len(S_uri), m.stop), psch, pkey))

RewriteUriAttr(line, psch, pkey) == RewriteUriAt(line, UriSearch(line, 0), psch, pkey)

\* DecodedFile that drops what was decoded
DecodedFile_Never(r) == None

\* Lines 234-241: last_decoded_file after a FILE line was decoded (r), or not
DecodedFile(r) == IF r.ok THEN PyStr(r.s) ELSE None

\* PendingAfterUse that carries the identifier on to the next placeholder line
PendingAfterUse_Kept(last) == last

\* Line 245: last_decoded_file after it was substituted
PendingAfterUse(last) == None

\* DecoderLine as a loop body that copies every line
DecoderLine_CopyAll(acc, line, psch, pkey, pdkey) ==
  [acc EXCEPT !.decoded = @ \o line \o <<"\n">>]

\* Lines 232-261, one pass of the loop body: acc holds decoded,
\* last_decoded_file (a str or None) and _cached_keys
DecoderLine(acc, line, psch, pkey, pdkey) ==
  IF StartsWith(line, mouflon_file_attr) THEN
    IF IsTrue(pkey) /\ IsTrue(pdkey) THEN
      [acc EXCEPT !.last = DecodedFile(Decode(SliceFrom(line, Len(mouflon_file_attr)),
                                              pdkey, acc.cache)),
                  !.cache = CacheLookup(acc.cache, pdkey)]
    ELSE [acc EXCEPT !.last = None]
  ELSE IF EndsWith(line, mouflon_filename) /\ IsTrue(acc.last) THEN
    [acc EXCEPT !.decoded = @ \o AppendParams(Replace(line, mouflon_filename, acc.last.s),
                                              psch, pkey) \o <<"\n">>,
                !.last = PendingAfterUse(acc.last)]
  ELSE IF StartsWith(line, S_map) \/ StartsWith(line, S_part) THEN
    [acc EXCEPT !.decoded = @ \o RewriteUriAttr(line, psch, pkey) \o <<"\n">>]
  ELSE IF StartsWith(line, S_http) \/ StartsWith(line, S_https) THEN
    [acc EXCEPT !.decoded = @ \o AppendParams(line, psch, pkey) \o <<"\n">>]
  ELSE [acc EXCEPT !.decoded = @ \o line \o <<"\n">>]

RECURSIVE DecoderLoop(_, _, _, _, _)
DecoderLoop(acc, lines, psch, pkey, pdkey) ==
  IF lines = <<>> THEN acc
  ELSE DecoderLoop(DecoderLine(acc, lines[1], psch, pkey, pdkey),
                   Tail(lines), psch, pkey, pdkey)

\* Lines 229-262: the loop over content.splitlines(), and the return
DecoderReturn(st, acc) ==
  [st |-> st, cache |-> acc.cache, out |-> Return(PyStr(acc.decoded))]

\* Line 209 on: g is the outcome of line 207 (pdkey, or the exception raised)
DecoderWith(g, cache, content, psch, pkey) ==
  IF g.out.kind = "raise" THEN [st |-> g.st, cache |-> cache, out |-> g.out]
  ELSE DecoderReturn(g.st,
                     DecoderLoop([decoded |-> <<>>, last |-> None, cache |-> cache],
                                 SplitLines(content), psch, pkey, g.out.val))

\* Lines 201-207: psch and pkey of the directive, and its decode key
DecoderFor(st, cache, config, content, m) ==
  DecoderWith(IF IsTrue(m.pkey) THEN GetMouflonDecKey(st, config, m.pkey)
              ELSE [st |-> st, out |-> Return(None)],
              cache, content, DefaultPsch(m), m.pkey)

\* m3u_decoder(content) as one call, from class attributes st (the key
\* store) and cache (_cached_keys): the attributes after the call and the
\* text returned, or the exception getMouflonDecKey raised
M3uDecoder(st, cache, config, content) ==
  DecoderFor(st, cache, config, content, GetMouflonFromM3U(content))

(***************************************************************************)
(* The program's state                                                     *)
(***************************************************************************)

\* config        the file mouflon_keys.json on disk
\* keys_loaded   StripChat._keys_loaded
\* mouflon_keys  StripChat._mouflon_keys
\* keys_warned   StripChat._keys_warned
\* cached_keys   StripChat._cached_keys
\* call          the call that ended last, with its arguments and outcome
\* pc, frame     where each thread stands, and its locals
VARIABLES config, keys_loaded, mouflon_keys, keys_warned, cached_keys,
          call, pc, frame

vars == <<config, keys_loaded, mouflon_keys, keys_warned, cached_keys,
          call, pc, frame>>

Threads == {"t1", "t2"}

ClassState == [loaded |-> keys_loaded, keys |-> mouflon_keys, warned |-> keys_warned]

SetClassState(st) ==
  /\ keys_loaded' = st.loaded
  /\ mouflon_keys' = st.keys
  /\ keys_warned' = st.warned

ClassInitState == [loaded |-> FALSE, keys |-> None, warned |-> FALSE]

\* The class attributes as the class body leaves them
ClassInit ==
  /\ keys_loaded = FALSE
  /\ mouflon_keys = None
  /\ keys_warned = FALSE
  /\ cached_keys = None

NoThreads ==
  /\ pc = [t \in Threads |-> "idle"]
  /\ frame = [t \in Threads |-> [op |-> "none"]]

(***************************************************************************)
(* Inputs: config files, key-ids, manifests                                *)
(***************************************************************************)

PKEY_OP == <<"O","p","e","r","a","t","o","r","K","e","y","1">>
PKEY_SHORT == <<"A","b","c">>
PKEY_UNKNOWN == <<"U","n","k","n","o","w","n">>

FormatA(pk, pd) ==
  ConfigDict(<< [k |-> PyStr(S_pkey), v |-> pk], [k |-> PyStr(S_pdkey), v |-> pd] >>)

\* The values a JSON document can give data['pkey'] and data['pdkey']
FormatAPkeys ==
  {PyStr(PKEY_OP), PyStr(PKEY_OOK), PyStr(PKEY_SHORT), None, PyInt(5), PyList}
FormatAPdkeys == {PyStr(PDKEY_B), PyStr(PDKEY_SHORT), None}

\* Members of a multi-pair file: sound ones, and ones line 93 turns away
FormatBEntries ==
  { [k |-> PyStr(PKEY_OP), v |-> PyStr(PDKEY_B)],
    [k |-> PyStr(PKEY_OOK), v |-> PyStr(PDKEY_B)],
    [k |-> PyStr(PKEY_ZEE), v |-> PyStr(PDKEY_SHORT)],
    [k |-> PyStr(PKEY_SHORT), v |-> PyStr(PDKEY_B)],
    [k |-> PyStr(PKEY_OP), v |-> None] }

\* The most members a multi-pair file of the model holds
MaxEntries == 2

\* A JSON object holds each member name once
FormatBItems ==
  UNION { { s \in [1..n -> FormatBEntries] :
              \A i, j \in 1..n : s[i].k = s[j].k => i = j } : n \in 0..MaxEntries }

Configs ==
  {ConfigMissing, ConfigInvalid, ConfigNonDict}
  \cup {FormatA(pk, pd) : pk \in FormatAPkeys, pd \in FormatAPdkeys}
  \cup {ConfigDict(items) : items \in FormatBItems}

\* What the operator may put in place of the file while the program runs
EditedConfigs ==
  { ConfigMissing,
    FormatA(PyStr(PKEY_OOK), PyStr(PDKEY_B)),
    ConfigDict(<< [k |-> PyStr(PKEY_OP), v |-> PyStr(PDKEY_B)] >>) }

\* Arguments of getMouflonDecKey
ResolveArgs ==
  {None, PyStr(<<>>), PyStr(PKEY_OP), PyStr(PKEY_OOK), PyStr(PKEY_ZEE),
   PyStr(PKEY_UNKNOWN)}

NL == <<"\n">>
CRLF == <<"\r", "\n">>

L_extm3u == <<"#","E","X","T","M","3","U">>
L_key_zee == S_mouflon \o <<"K","E","Y",":","v","1",":">> \o PKEY_ZEE
L_key_unknown == S_mouflon \o <<"K","E","Y",":","v","1",":">> \o PKEY_UNKNOWN
\* "s1.mp4" concealed under the decode key of PKEY_ZEE
L_file_zee == mouflon_file_attr \o <<"a","/","F","R","I","X","n","n">>
L_media == <<"h","t","t","p","s",":","/","/","e",".","d","o","p","p","i","o","c","d","n",".","c","o","m","/","h","/","m","e","d","i","a",".","m","p","4">>
L_seg == <<"h","t","t","p","s",":","/","/","e",".","d","o","p","p","i","o","c","d","n",".","c","o","m","/","a",".","m","p","4">>

\* Manifests for the calls of m3u_decoder that exercise the key store
StoreDocs ==
  { L_key_zee \o NL \o L_file_zee \o NL \o L_media \o NL,
    L_key_unknown \o NL \o L_seg \o NL,
    L_extm3u \o NL \o L_seg \o NL }

(***************************************************************************)
(* The calls, one at a time                                                *)
(***************************************************************************)

\* StripChat(...): __init__ runs _loadMouflonKeys (lines 143-144)
Construct ==
  /\ SetClassState(LoadMouflonKeys(ClassState, config))
  /\ call' = [op |-> "load", first |-> ~keys_loaded]
  /\ UNCHANGED <<config, cached_keys, pc, frame>>

\* StripChat.getMouflonDecKey(pkey)
ResolveEnds(pkey, g) ==
  /\ SetClassState(g.st)
  /\ call' = [op |-> "resolve", first |-> ~keys_loaded, pkey |-> pkey, out |-> g.out]
  /\ UNCHANGED <<config, cached_keys, pc, frame>>

Resolve(pkey) == ResolveEnds(pkey, GetMouflonDecKey(ClassState, config, pkey))

\* StripChat.m3u_decoder(content)
DecoderEnds(content, r) ==
  /\ SetClassState(r.st)
  /\ cached_keys' = r.cache
  /\ call' = [op |-> "m3u_decoder", first |-> ~keys_loaded /\ r.st.loaded,
              content |-> content, out |-> r.out]
  /\ UNCHANGED <<config, pc, frame>>

Decoder(content) ==
  DecoderEnds(content, M3uDecoder(ClassState, cached_keys, config, content))

\* The operator replaces mouflon_keys.json while the program runs
EditConfig(c) ==
  /\ c # config
  /\ config' = c
  /\ call' = [op |-> "edit"]
  /\ UNCHANGED <<keys_loaded, mouflon_keys, keys_warned, cached_keys, pc, frame>>

Init == ClassInit /\ NoThreads /\ config \in Configs /\ call = [op |-> "none"]
Next ==
  \/ Construct
  \/ \E pkey \in ResolveArgs : Resolve(pkey)
  \/ \E content \in StoreDocs : Decoder(content)
  \/ \E c \in EditedConfigs : EditConfig(c)
Spec == Init /\ [][Next]_vars

(***************************************************************************)
(* The key store: claims C4, C5, C6, C10 (checked under Spec)              *)
(***************************************************************************)

FallbackIds == {FALLBACK_KEYS[i].k : i \in 1..Len(FALLBACK_KEYS)}

\* The two shapes of the operator's file
IsSinglePair(c) ==
  c.kind = "dict" /\ InDict(c.items, PyStr(S_pkey)) /\ InDict(c.items, PyStr(S_pdkey))
IsMultiPair(c) == c.kind = "dict" /\ ~IsSinglePair(c)

\* The <<key-id, decode key>> pairs the file configures
ConfiguredPairs(c) ==
  IF IsSinglePair(c)
  THEN {<<DictGet(c.items, PyStr(S_pkey)), DictGet(c.items, PyStr(S_pdkey))>>}
  ELSE IF IsMultiPair(c) THEN {<<c.items[i].k, c.items[i].v>> : i \in 1..Len(c.items)}
  ELSE {}

\* A pair whose key-id and decode key are strings of at least MinKeyLen characters
LongEnough(e) ==
  IsStr(e[1]) /\ IsStr(e[2]) /\ Len(e[1].s) >= MinKeyLen /\ Len(e[2].s) >= MinKeyLen

\* The call that ended last ran the initial load: config is the file it read
JustLoaded == call.op \in {"load", "resolve", "m3u_decoder"} /\ call.first

\* resolve(key-id) in the current state
ResolveNow(k) == GetMouflonDecKey(ClassState, config, k).out

\* No key-id is stored twice
OneKeyPerId ==
  \A i, j \in 1..Len(mouflon_keys.d) :
    mouflon_keys.d[i].k = mouflon_keys.d[j].k => i = j

\* C4 as stated: after load the store maps each key-id to exactly one decode
\* key, and for every key-id that is both in the operator's file (either
\* shape) and in the fallback table, resolve returns the operator's decode key.
C4_OperatorAlwaysWins ==
  JustLoaded =>
    /\ OneKeyPerId
    /\ \A e \in ConfiguredPairs(config) :
         e[1] \in FallbackIds => ResolveNow(e[1]) = Return(e[2])

\* C4 amended: after load the store maps each key-id to exactly one decode
\* key; for a key-id of the fallback table that the file configures as its
\* single pair, or in a multi-pair file with key-id and decode key both
\* strings of at least 12 characters, resolve returns the operator's decode
\* key; a multi-pair entry that fails that test is skipped and resolve
\* returns the fallback decode key.
C4_AcceptedOperatorWins ==
  /\ keys_loaded => OneKeyPerId
  /\ JustLoaded =>
       \A e \in ConfiguredPairs(config) :
         e[1] \in FallbackIds =>
           IF IsSinglePair(config) \/ LongEnough(e)
           THEN ResolveNow(e[1]) = Return(e[2])
           ELSE ResolveNow(e[1]) = Return(DictGet(FALLBACK_KEYS, e[1]))

\* C4 witness: the load has just run on a file that gives a fallback key-id
\* another decode key than the fallback table, and the file's entry is taken
C4_Witness ==
  /\ JustLoaded
  /\ \E e \in ConfiguredPairs(config) :
       /\ e[1] \in FallbackIds
       /\ IsSinglePair(config) \/ LongEnough(e)
       /\ e[2] # DictGet(FALLBACK_KEYS, e[1])
       /\ DictGet(mouflon_keys.d, e[1]) = e[2]

\* C5 as stated, for a non-empty key-id argument: resolve returns null only
\* when the store has no entry.
C5_NullOnlyWhenEmpty ==
  (call.op = "resolve" /\ IsTrue(call.pkey) /\ call.out = Return(None))
    => mouflon_keys.d = EmptyDict

\* The stored entries that are no fallback entries
NonFallback(d) == {i \in 1..Len(d) : d[i].k \notin FallbackIds}

\* C6 as stated, for a non-empty key-id argument: resolve returns the decode
\* key stored under the key-id when the store holds it; when it does not and
\* the store is not empty, resolve returns the decode key of a stored entry,
\* of one that is no fallback entry when there is one.
C6_ExactThenNonFallback ==
  (call.op = "resolve" /\ IsTrue(call.pkey)) =>
    IF InDict(mouflon_keys.d, call.pkey)
    THEN call.out = Return(DictGet(mouflon_keys.d, call.pkey))
    ELSE mouflon_keys.d # EmptyDict =>
           /\ call.out.kind = "return"
           /\ \E i \in 1..Len(mouflon_keys.d) : call.out.val = mouflon_keys.d[i].v
           /\ NonFallback(mouflon_keys.d) # {} =>
                \E i \in NonFallback(mouflon_keys.d) : call.out.val = mouflon_keys.d[i].v

\* C10: once the store is loaded no step changes it: a further load, a
\* resolve, a call of m3u_decoder, an edit of the file.
C10_StoreFrozen ==
  [][keys_loaded => (keys_loaded' /\ mouflon_keys' = mouflon_keys)]_vars

\* C10 witness: _loadMouflonKeys has run again after the initial load, while
\* the file on disk would now give another store
C10_Witness ==
  /\ call.op = "load" /\ ~call.first
  /\ mouflon_keys # LoadMouflonKeys(ClassInitState, config).keys


\* The load of config meets an exception: open or json.load raises, or the
\* single-pair branch raises at line 88 (unhashable key-id) or at line 89
\* (data["pkey"][:4] on a key-id that is no str)
LoadRaises(c) ==
  \/ c.kind = "invalid"
  \/ /\ IsSinglePair(c)
     /\ \/ ~Hashable(DictGet(c.items, PyStr(S_pkey)))
        \/ ~Subscriptable(DictGet(c.items, PyStr(S_pkey)))

\* The entries of a dict, as a set
Entries(d) == {d[i] : i \in 1..Len(d)}

\* C20 as stated: after the load of a file that is missing, unparsable or
\* raises while it is loaded, the store holds exactly the fallback entries;
\* in a multi-pair file an entry whose key-id or decode key is no string of
\* at least 12 characters is skipped and every other entry is loaded.
C20_FailedConfigAddsNothing ==
  JustLoaded =>
    /\ (config.kind = "missing" \/ LoadRaises(config))
         => Entries(mouflon_keys.d) = Entries(FALLBACK_KEYS)
    /\ IsMultiPair(config) =>
         \A i \in 1..Len(config.items) :
           IF AcceptsEntry(config.items[i].k, config.items[i].v)
           THEN config.items[i] \in Entries(mouflon_keys.d)
           ELSE config.items[i] \notin Entries(mouflon_keys.d)

(***************************************************************************)
(* _decode on its own: claim C7 (checked under SpecDecode)                 *)
(***************************************************************************)

\* Digit j (from 0) of the base64 text of bytes b: six bits from bit 6j on,
\* zero bits after the last byte
B64Digit(b, j) ==
  B64Alphabet[
    1 + (IF (6 * j) % 8 = 0 THEN b[((6 * j) \div 8) + 1] \div 4
         ELSE IF (6 * j) % 8 = 2 THEN b[((6 * j) \div 8) + 1] % 64
         ELSE IF (6 * j) % 8 = 4
           THEN (b[((6 * j) \div 8) + 1] % 16) * 4
                + (IF ((6 * j) \div 8) + 2 <= Len(b) THEN b[((6 * j) \div 8) + 2] \div 64 ELSE 0)
         ELSE (b[((6 * j) \div 8) + 1] % 4) * 16
              + (IF ((6 * j) \div 8) + 2 <= Len(b) THEN b[((6 * j) \div 8) + 2] \div 16 ELSE 0))]

\* base64.b64encode(b) with its "=" padding left off
B64EncodeNoPad(b) == [j \in 1..((Len(b) * 8 + 5) \div 6) |-> B64Digit(b, j - 1)]

\* The bytes b under the mask, the mask repeated as often as needed
Masked(b, mask) == [i \in 1..Len(b) |-> Xor(b[i], mask[((i - 1) % Len(mask)) + 1])]

\* encode(P, K): what the origin puts on a FILE line for the text P under
\* the decode key K
Encode(P, K) == B64EncodeNoPad(Masked(Utf8Encode(P), Sha256Digest(K)))

DecodeKeys == {PDKEY_OOK, PDKEY_ZEE, PDKEY_SHORT}

\* The longest payload of the model, in characters: longer than the 32-byte mask
MaxPayloadLen == 34

PlainText == <<"m","e","d","i","a","_","1","0","8","0","p","_","h","2","6","4","_","0","1","2","3","4","5","6","7","8","9","_","a","b","c","d","e","f","g","h","i","j","k","l","m","n","o","p","q","r","s","t","u","v","w","x","y","z",".","m","p","4">>
\* PlainText with U+00E9 and U+0416 (two UTF-8 bytes each) in places
AccentText == <<Chr(233)>> \o SubSeq(PlainText, 2, 6) \o <<Chr(1046)>> \o SubSeq(PlainText, 8, Len(PlainText))

Payloads == {SubSeq(t, 1, n) : t \in {PlainText, AccentText}, n \in 0..MaxPayloadLen}

InitDecode ==
  /\ ClassInit /\ NoThreads
  /\ config = ConfigMissing
  /\ \E K \in DecodeKeys, P \in Payloads :
       call = [op |-> "encode", payload |-> P, enckey |-> K, encoded |-> Encode(P, K)]

DecodeEnds(key, r) ==
  /\ cached_keys' = CacheLookup(cached_keys, PyStr(key))
  /\ call' = [op |-> "_decode", payload |-> call.payload, enckey |-> call.enckey,
              encoded |-> call.encoded, key |-> key, out |-> r]
  /\ UNCHANGED <<config, keys_loaded, mouflon_keys, keys_warned, pc, frame>>

\* _decode(encrypted_b64, key) on the encoded text, with the key it was
\* encoded under
DecodeRight ==
  DecodeEnds(call.enckey, Decode(call.encoded, PyStr(call.enckey), cached_keys))

\* _decode on the encoded text with another key
DecodeWrong(key) ==
  /\ key # call.enckey
  /\ DecodeEnds(key, Decode(call.encoded, PyStr(key), cached_keys))

NextDecode == DecodeRight \/ \E key \in DecodeKeys : DecodeWrong(key)

SpecDecode == InitDecode /\ [][NextDecode]_vars

\* C7: for every decode key K and every text P, decode(encode(P, K), K) = P,
\* at every payload length.
C7_RoundTrip ==
  (call.op = "_decode" /\ call.key = call.enckey)
    => call.out = [ok |-> TRUE, s |-> call.payload]

\* C7 witness: a payload longer than the mask came back whole, through a
\* mask the cache already held
C7_Witness ==
  /\ call.op = "_decode" /\ call.key = call.enckey
  /\ Len(Utf8Encode(call.payload)) > Len(Sha256Digest(call.key))
  /\ call.out.ok /\ call.out.s = call.payload
  /\ \E c \in {call.payload[i] : i \in 1..Len(call.payload)} : Ord(c) > 127


(***************************************************************************)
(* m3u_decoder over whole manifests: SpecRewrite, claims C1, C2, C8        *)
(***************************************************************************)

L_seg_q == <<"h","t","t","p","s",":","/","/","e",".","d","o","p","p","i","o","c","d","n",".","o","r","g","/","a",".","m","p","4","?","p","s","c","h","=","v","0","&","t","=","a","/","b">>
L_map == <<"#","E","X","T","-","X","-","M","A","P",":","U","R","I","=","\"","h","t","t","p","s",":","/","/","e",".","d","o","p","p","i","o","c","d","n",".","c","o","m","/","i",".","m","p","4","\"">>
L_other == <<"h","t","t","p","s",":","/","/","c","d","n",".","e","x","a","m","p","l","e",".","c","o","m","/","b",".","m","p","4">>
L_hint == <<"#","E","X","T","-","X","-","P","R","E","L","O","A","D","-","H","I","N","T",":","T","Y","P","E","=","P","A","R","T",",","U","R","I","=","\"","h","t","t","p","s",":","/","/","e",".","d","o","p","p","i","o","c","d","n",".","c","o","m","/","p",".","m","p","4","\"">>

\* The lines manifests are made of: an opaque tag, the KEY directive, a FILE
\* line, a media.mp4 line, a bare URI that has a query, a MAP line, a bare
\* URI on a host that is no delivery edge, and a tag that is neither MAP nor
\* PART with a quoted URI attribute
RewriteLines ==
  {L_extm3u, L_key_zee, L_file_zee, L_media, L_seg_q, L_map, L_other, L_hint}

\* The most lines a manifest of the model holds
MaxLines == 3

LineSeqs == UNION {[1..n -> RewriteLines] : n \in 0..MaxLines}

\* The lines with eol between them, and after the last when final
Text(ls, eol, final) == Join(ls, eol) \o (IF final /\ ls # <<>> THEN eol ELSE <<>>)

\* Each sequence of lines as LF text, as LF text without the last line
\* break, and as CRLF text
Manifests ==
  {Text(ls, NL, TRUE) : ls \in LineSeqs}
  \cup {Text(ls, NL, FALSE) : ls \in LineSeqs}
  \cup {Text(ls, CRLF, TRUE) : ls \in LineSeqs}

InitRewrite ==
  /\ ClassInit /\ NoThreads
  /\ config = ConfigMissing
  /\ \E content \in Manifests : call = [op |-> "input", content |-> content]

RewriteEnds(pass, content, prev, r) ==
  /\ SetClassState(r.st)
  /\ cached_keys' = r.cache
  /\ call' = [op |-> "m3u_decoder", pass |-> pass, content |-> content,
              prev |-> prev, out |-> r.out]
  /\ UNCHANGED <<config, pc, frame>>

\* m3u_decoder(content) on the manifest
RewriteFirst ==
  /\ call.op = "input"
  /\ RewriteEnds(1, call.content, None,
                 M3uDecoder(ClassState, cached_keys, config, call.content))

\* m3u_decoder on the text the first call returned
RewriteAgain ==
  /\ call.op = "m3u_decoder" /\ call.pass = 1 /\ call.out.kind = "return"
  /\ RewriteEnds(2, call.content, call.out.val,
                 M3uDecoder(ClassState, cached_keys, config, call.out.val.s))

NextRewrite == RewriteFirst \/ RewriteAgain

SpecRewrite == InitRewrite /\ [][NextRewrite]_vars

\* The manifest holds no '#EXT-X-MOUFLON:' text
NoMouflon(content) == ~Contains(content, S_mouflon)

FirstPass == call.op = "m3u_decoder" /\ call.pass = 1

\* C1 as stated: m3u_decoder returns a manifest without encryption directive
\* byte for byte, whatever its line endings.
C1_Identical ==
  (FirstPass /\ NoMouflon(call.content)) => call.out = Return(PyStr(call.content))

\* Every line of the text ends with one "\n"
LfTerminated(text) ==
  ~Contains(text, <<"\r">>) /\ (text = <<>> \/ text[Len(text)] = "\n")

\* The lines, each followed by "\n"
EachWithLf(lines) == Flatten([i \in 1..Len(lines) |-> lines[i] \o NL])

\* C1 amended: for a manifest without '#EXT-X-MOUFLON:' text m3u_decoder
\* returns the lines of its input, unchanged and in order, each followed by
\* one "\n"; the result is the input itself exactly when every line of the
\* input ends with one "\n".
C1_LinesKept ==
  (FirstPass /\ NoMouflon(call.content)) =>
    /\ call.out = Return(PyStr(EachWithLf(SplitLines(call.content))))
    /\ (call.out.val.s = call.content) <=> LfTerminated(call.content)

\* C1 witness: a CRLF manifest without directive, with a bare URI on a
\* delivery edge and a MAP line, came back with its lines kept and its line
\* breaks changed
C1_Witness ==
  /\ FirstPass /\ NoMouflon(call.content)
  /\ Contains(call.content, L_seg_q \o CRLF)
  /\ Contains(call.content, L_map \o CRLF)
  /\ call.out.val.s # call.content
  /\ SplitLines(call.out.val.s) = SplitLines(call.content)

\* A KEY directive line: '#EXT-X-MOUFLON:' and at least three more
\* colon-separated fields, and no FILE line
IsDirectiveLine(line) ==
  /\ StartsWith(line, S_mouflon)
  /\ ~StartsWith(line, mouflon_file_attr)
  /\ Len(Split(line, <<":">>)) >= 4

DirectiveLines(content) == SelectSeq(SplitLines(content), IsDirectiveLine)

\* The key-id of a directive line resolves to a decode key under the file
\* on disk
Resolvable(line) ==
  IsTrue(GetMouflonDecKey(ClassInitState, config, PyStr(Split(line, <<":">>)[4])).out.val)

\* The values of the URI="..." attributes of a line, left to right
RECURSIVE UriAttrs(_)
UriAttrsAt(line, m) ==
  IF m.start < 0 THEN <<>>
  ELSE <<Slice(line, m.start + Len(S_uri), m.stop)>> \o UriAttrs(SliceFrom(line, m.stop + 1))

UriAttrs(line) == UriAttrsAt(line, UriSearch(line, 0))

\* The URIs of a line: the line itself when it is a bare absolute URI, else
\* its quoted URI attributes
LineUris(line) ==
  IF StartsWith(line, S_http) \/ StartsWith(line, S_https) THEN <<line>>
  ELSE UriAttrs(line)

\* The URIs of a text, in document order
Uris(text) == Flatten([i \in 1..Len(SplitLines(text)) |-> LineUris(SplitLines(text)[i])])

\* The host is a delivery-edge domain or a subdomain of one
IsEdgeHost(host) ==
  \E h \in EdgeHosts : host = h \/ EndsWith(host, <<".">> \o h)

OnEdge(uri) == UrlSplit(uri).ok /\ IsEdgeHost(UrlSplit(uri).netloc)

\* How often the query of the URI names the parameter
ParamCount(uri, name) ==
  Len(SelectSeq(ParseQsl(UrlSplit(uri).query), LAMBDA pair : pair[1] = name))

\* C2 as stated: when the manifest has exactly one encryption directive and
\* its key-id resolves, every delivery-edge URI of the output (bare URI
\* lines and quoted URI attributes) carries psch once and pkey once.
C2_EveryEdgeUriAugmented ==
  ( /\ FirstPass
    /\ Len(DirectiveLines(call.content)) = 1
    /\ Resolvable(DirectiveLines(call.content)[1]) )
  => \A i \in 1..Len(Uris(call.out.val.s)) :
       OnEdge(Uris(call.out.val.s)[i]) =>
         /\ ParamCount(Uris(call.out.val.s)[i], S_psch) = 1
         /\ ParamCount(Uris(call.out.val.s)[i], S_pkey) = 1

EdgeUris(text) == SelectSeq(Uris(text), OnEdge)

\* C8 as stated: for a manifest with a directive whose key-id resolves, a
\* second pass of m3u_decoder over the output of the first leaves every
\* delivery-edge URI as the first pass gave it.
C8_SecondPassKeepsUris ==
  ( /\ call.op = "m3u_decoder" /\ call.pass = 2
    /\ DirectiveLines(call.content) # <<>>
    /\ Resolvable(DirectiveLines(call.content)[1]) )
  => EdgeUris(call.out.val.s) = EdgeUris(call.prev.s)


(***************************************************************************)
(* Two threads on the class attributes: SpecThreads, claims C9 and C3      *)
(***************************************************************************)

ThreadConfigs == {ConfigMissing, FormatA(PyStr(PKEY_OP), PyStr(PDKEY_B))}
ThreadPkeys == {PyStr(PKEY_ZEE), PyStr(PKEY_UNKNOWN)}
ThreadDocs == {L_key_zee \o NL \o L_seg \o NL, L_extm3u \o NL \o L_seg \o NL}

InitThreads ==
  /\ ClassInit /\ NoThreads
  /\ config \in ThreadConfigs
  /\ call = [op |-> "none"]

\* Thread t moves to the step at, with locals f
Goto(t, at, f) ==
  /\ pc' = [pc EXCEPT ![t] = at]
  /\ frame' = [frame EXCEPT ![t] = f]

\* Where _loadMouflonKeys returns to: __init__ ends, getMouflonDecKey goes on
\* at line 164
AfterLoad(f) == IF f.op = "load" THEN "done" ELSE "lookup"

\* Line 144: __init__ calls _loadMouflonKeys
StartLoad(t) ==
  /\ pc[t] = "idle"
  /\ Goto(t, "load_check", [op |-> "load"])
  /\ UNCHANGED <<config, keys_loaded, mouflon_keys, keys_warned, cached_keys, call>>

\* Line 162: getMouflonDecKey(pkey) calls _loadMouflonKeys
StartResolve(t, pkey) ==
  /\ pc[t] = "idle"
  /\ Goto(t, "load_check", [op |-> "resolve", pkey |-> pkey])
  /\ UNCHANGED <<config, keys_loaded, mouflon_keys, keys_warned, cached_keys, call>>

\* Lines 201-207: m3u_decoder(content) reads the directive and, when it
\* names a key-id, calls getMouflonDecKey
DecoderFrame(content, m) ==
  [op |-> "m3u_decoder", content |-> content, psch |-> DefaultPsch(m),
   pkey |-> m.pkey, pdkey |-> None]

StartDecoderAt(t, f) ==
  /\ pc[t] = "idle"
  /\ Goto(t, IF IsTrue(f.pkey) THEN "load_check" ELSE "rewrite", f)
  /\ UNCHANGED <<config, keys_loaded, mouflon_keys, keys_warned, cached_keys, call>>

StartDecoder(t, content) ==
  StartDecoderAt(t, DecoderFrame(content, GetMouflonFromM3U(content)))

\* Lines 71-72: if cls._keys_loaded: return
LoadCheck(t) ==
  /\ pc[t] = "load_check"
  /\ Goto(t, IF keys_loaded THEN AfterLoad(frame[t]) ELSE "load_set", frame[t])
  /\ UNCHANGED <<config, keys_loaded, mouflon_keys, keys_warned, cached_keys, call>>

\* Line 73: cls._keys_loaded = True
LoadSet(t) ==
  /\ pc[t] = "load_set"
  /\ keys_loaded' = TRUE
  /\ Goto(t, "load_dict", frame[t])
  /\ UNCHANGED <<config, mouflon_keys, keys_warned, cached_keys, call>>

\* Lines 75-76: if cls._mouflon_keys is None: cls._mouflon_keys = {}
LoadDict(t) ==
  /\ pc[t] = "load_dict"
  /\ mouflon_keys' = IF mouflon_keys = None THEN [t |-> "dict", d |-> EmptyDict]
                     ELSE mouflon_keys
  /\ Goto(t, "load_config", frame[t])
  /\ UNCHANGED <<config, keys_loaded, keys_warned, cached_keys, call>>

\* Lines 78-98: the entries of the config file
LoadFile(t) ==
  /\ pc[t] = "load_config"
  /\ mouflon_keys' = [t |-> "dict", d |-> LoadConfig(mouflon_keys.d, config)]
  /\ Goto(t, "load_fallback", frame[t])
  /\ UNCHANGED <<config, keys_loaded, keys_warned, cached_keys, call>>

\* Lines 100-103: the fallback entries
LoadFallback(t) ==
  /\ pc[t] = "load_fallback"
  /\ mouflon_keys' = [t |-> "dict", d |-> AddFallback(mouflon_keys.d, FALLBACK_KEYS)]
  /\ Goto(t, "load_warn", frame[t])
  /\ UNCHANGED <<config, keys_loaded, keys_warned, cached_keys, call>>

\* Lines 105-106: if not cls._mouflon_keys: cls._printKeyHelp()
LoadWarn(t) ==
  /\ pc[t] = "load_warn"
  /\ keys_warned' = (keys_warned \/ mouflon_keys.d = EmptyDict)
  /\ Goto(t, AfterLoad(frame[t]), frame[t])
  /\ UNCHANGED <<config, keys_loaded, mouflon_keys, cached_keys, call>>

\* Lines 164-186 end the call of getMouflonDecKey; in m3u_decoder its
\* value, or the exception, comes back at line 207. store is the
\* _mouflon_keys the lines read.
LookupEnds(t, f, out) ==
  /\ keys_warned' = (keys_warned \/ (out = Return(None) /\ mouflon_keys.d = EmptyDict))
  /\ IF f.op = "resolve" \/ out.kind = "raise"
     THEN Goto(t, "done", f @@ [out |-> out, store |-> mouflon_keys])
     ELSE Goto(t, "rewrite", [f EXCEPT !.pdkey = out.val] @@ [store |-> mouflon_keys])
  /\ UNCHANGED <<config, keys_loaded, mouflon_keys, cached_keys, call>>

Lookup(t) ==
  /\ pc[t] = "lookup"
  /\ LookupEnds(t, frame[t], LookupDecKey(mouflon_keys, frame[t].pkey))

\* Lines 229-262: the loop over the lines, and the return
RewriteEndsAt(t, f, acc) ==
  /\ cached_keys' = acc.cache
  /\ Goto(t, "done", f @@ [out |-> Return(PyStr(acc.decoded))])
  /\ UNCHANGED <<config, keys_loaded, mouflon_keys, keys_warned, call>>

Rewrite(t) ==
  /\ pc[t] = "rewrite"
  /\ RewriteEndsAt(t, frame[t],
                   DecoderLoop([decoded |-> <<>>, last |-> None, cache |-> cached_keys],
                               SplitLines(frame[t].content), frame[t].psch,
                               frame[t].pkey, frame[t].pdkey))

\* The caller has its result; the thread is free for another call
Finish(t) ==
  /\ pc[t] = "done"
  /\ Goto(t, "idle", [op |-> "none"])
  /\ UNCHANGED <<config, keys_loaded, mouflon_keys, keys_warned, cached_keys, call>>

NextThreads ==
  \E t \in Threads :
    \/ StartLoad(t)
    \/ \E pkey \in ThreadPkeys : StartResolve(t, pkey)
    \/ \E content \in ThreadDocs : StartDecoder(t, content)
    \/ LoadCheck(t)
    \/ LoadSet(t)
    \/ LoadDict(t)
    \/ LoadFile(t)
    \/ LoadFallback(t)
    \/ LoadWarn(t)
    \/ Lookup(t)
    \/ Rewrite(t)
    \/ Finish(t)

SpecThreads == InitThreads /\ [][NextThreads]_vars

\* The store a load of the file on disk ends with
FinalStore == LoadMouflonKeys(ClassInitState, config).keys.d

\* C9 as stated: whatever the interleaving of loads and resolves, every
\* resolve of a key-id of the final merged set returns that key-id's decode
\* key; none fails or returns null because a load is still under way.
C9_ResolveSeesLoadedStore ==
  \A t \in Threads :
    (pc[t] = "done" /\ frame[t].op = "resolve" /\ InDict(FinalStore, frame[t].pkey))
      => frame[t].out = Return(DictGet(FinalStore, frame[t].pkey))

\* C3 as stated: when the key-id of the manifest does not resolve and the
\* store is empty, m3u_decoder adds no parameter: the URIs of its output are
\* those of its input.
C3_UnresolvedLeavesUris ==
  \A t \in Threads :
    ( /\ pc[t] = "done" /\ frame[t].op = "m3u_decoder"
      /\ IsTrue(frame[t].pkey) /\ frame[t].out.kind = "return"
      /\ frame[t].pdkey = None
      /\ frame[t].store = [t |-> "dict", d |-> EmptyDict] )
    => Uris(frame[t].out.val.s) = Uris(frame[t].content)


(***************************************************************************)
(* _getMouflonFromM3U on its own: SpecDirective, claim C14                 *)
(***************************************************************************)

\* Directive lines of five, four (one with an empty scheme, one with a
\* one-character key-id), three and two colon-separated fields
D_five == L_key_zee \o <<":","x">>
D_noscheme == S_mouflon \o <<"K","E","Y",":",":">> \o PKEY_ZEE
D_short == S_mouflon \o <<"K","E","Y",":","v","2",":","k">>
D_three == S_mouflon \o <<"K","E","Y",":","v","1">>
D_two == S_mouflon \o <<"K","E","Y">>

DirectiveLineSet == {L_key_zee, D_five, D_noscheme, D_short, D_three, D_two}

\* The directive line alone, first, in the middle and last
DirectivePlaces(d) ==
  { <<d>>, <<d, L_extm3u, L_seg>>, <<L_extm3u, d, L_seg>>, <<L_extm3u, L_seg, d>> }

InitDirective ==
  /\ ClassInit /\ NoThreads
  /\ config = ConfigMissing
  /\ \E d \in DirectiveLineSet : \E ls \in DirectivePlaces(d) :
       \E eol \in {NL, CRLF} : \E final \in BOOLEAN :
         call = [op |-> "doc", content |-> Text(ls, eol, final), line |-> d,
                 last |-> (ls[Len(ls)] = d), final |-> final]

\* StripChat._getMouflonFromM3U(m3u8_doc)
ParseEnds(m) ==
  /\ call' = [op |-> "_getMouflonFromM3U", content |-> call.content,
              line |-> call.line, last |-> call.last, final |-> call.final,
              psch |-> m.psch, pkey |-> m.pkey]
  /\ UNCHANGED <<config, keys_loaded, mouflon_keys, keys_warned, cached_keys, pc, frame>>

Parse == call.op = "doc" /\ ParseEnds(GetMouflonFromM3U(call.content))

NextDirective == Parse

SpecDirective == InitDirective /\ [][NextDirective]_vars

\* What the fields of a directive line give: fields 3 and 4, or no directive
FieldsOf(f) ==
  IF Len(f) >= 4 THEN [psch |-> PyStr(f[3]), pkey |-> PyStr(f[4])]
  ELSE [psch |-> None, pkey |-> None]

\* C14 as stated: for a directive line of at least four colon-separated
\* fields _getMouflonFromM3U returns field 3 as the scheme and field 4 as
\* the key-id, wherever the line sits, also as the last line without line
\* break; for fewer fields it returns (None, None).
C14_FieldsOfDirectiveLine ==
  call.op = "_getMouflonFromM3U" =>
    [psch |-> call.psch, pkey |-> call.pkey] = FieldsOf(Split(call.line, <<":">>))


(***************************************************************************)
(* m3u_decoder and the order of the lines: SpecOrder, claim C16            *)
(***************************************************************************)

\* A second KEY directive, of another scheme and key-id
L_key_ook == S_mouflon \o <<"K","E","Y",":","v","2",":">> \o PKEY_OOK

OrderLines == {L_key_zee, L_key_ook, L_file_zee, L_media, L_seg}

\* LF manifests of one to MaxLines of these lines, each line ended
OrderDocs == UNION { {Text(ls, NL, TRUE) : ls \in [1..n -> OrderLines]} : n \in 1..MaxLines }

InitOrder ==
  /\ ClassInit /\ NoThreads
  /\ config = ConfigMissing
  /\ \E content \in OrderDocs : call = [op |-> "input", content |-> content]

SpecOrder == InitOrder /\ [][NextRewrite]_vars

\* m3u_decoder on the manifest, were psch and pkey those of directive line d
DecodedUnder(content, d) ==
  DecoderFor(ClassInitState, None, config, content, FieldsOf(Split(d, <<":">>))).out

\* C16 as stated: when the manifest has a KEY directive, m3u_decoder decodes
\* and augments the whole document under the scheme and key-id of the first
\* KEY directive in document order; a later KEY directive does not change
\* them and a FILE line before the first KEY directive does not hide it.
C16_FirstKeyDirectiveRules ==
  (FirstPass /\ DirectiveLines(call.content) # <<>>)
    => call.out = DecodedUnder(call.content, DirectiveLines(call.content)[1])


(***************************************************************************)
(* What m3u_decoder leaves alone: claim C15 (checked under SpecRewrite)    *)
(***************************************************************************)

IsFileLine(line) == StartsWith(line, mouflon_file_attr)
NotFileLine(line) == ~IsFileLine(line)

\* A line m3u_decoder may rewrite: one that ends with the placeholder
\* filename, a bare absolute URI, a MAP or PART tag
IsRewritable(line) ==
  \/ EndsWith(line, mouflon_filename)
  \/ StartsWith(line, S_http) \/ StartsWith(line, S_https)
  \/ StartsWith(line, S_map) \/ StartsWith(line, S_part)

\* The lines of out are those of in, line for line, and every line of in
\* that is not rewritable is in out as it is
SameFrame(in, out) ==
  /\ Len(out) = Len(in)
  /\ \A i \in 1..Len(in) : ~IsRewritable(in[i]) => out[i] = in[i]

\* C15 as stated: the output has the lines of the input, in the same order
\* and of the same count; directive lines, FILE lines and opaque lines are
\* unchanged.
C15_EveryLineKept ==
  FirstPass => SameFrame(SplitLines(call.content), SplitLines(call.out.val.s))

\* C15 amended: the output has the lines of the input other than the
\* '#EXT-X-MOUFLON:FILE:' lines, in the same order, one output line for each;
\* every such line that is no placeholder-filename line, bare URI or MAP/PART
\* tag is unchanged.
C15_FileLinesDropped ==
  FirstPass =>
    SameFrame(SelectSeq(SplitLines(call.content), NotFileLine),
              SplitLines(call.out.val.s))

\* C15 witness: a manifest with a KEY directive, a FILE line and the
\* placeholder line it resolves came back one line shorter, the directive
\* kept and the placeholder replaced
C15_Witness ==
  /\ FirstPass
  /\ SplitLines(call.content) = <<L_key_zee, L_file_zee, L_media>>
  /\ Len(SplitLines(call.out.val.s)) = 2
  /\ SplitLines(call.out.val.s)[1] = L_key_zee
  /\ SplitLines(call.out.val.s)[2] # L_media


(***************************************************************************)
(* The scan of FILE lines and placeholder lines: SpecScan, claims C11, C17 *)
(* and C18                                                                 *)
(***************************************************************************)

\* FILE lines under the decode key of PKEY_ZEE: "s1.mp4" (L_file_zee),
\* "s2.mp4", a payload of five base64 digits (binascii.Error), a payload
\* whose byte is no UTF-8 (UnicodeDecodeError), and an empty payload, which
\* decodes to ''
L_file_two == mouflon_file_attr \o <<"a","/","J","R","I","X","n","n">>
L_file_b64 == mouflon_file_attr \o <<"a","b","c","d","e">>
L_file_utf8 == mouflon_file_attr \o <<"5","w">>
L_media_dir == <<"h","t","t","p","s",":","/","/","e",".","d","o","p","p","i","o","c","d","n",".","c","o","m","/","m","e","d","i","a",".","m","p","4","/","m","e","d","i","a",".","m","p","4">>
L_file_empty == mouflon_file_attr

\* The lines after the KEY directive: FILE lines and placeholder lines (one
\* with media.mp4 as a directory too)
ScanLines ==
  {L_file_zee, L_file_two, L_file_b64, L_file_utf8, L_file_empty,
   L_media, L_media_dir}

\* The most lines that follow the directive
MaxScanLines == 4

ScanDocs ==
  UNION { {Text(<<L_key_zee>> \o ls, NL, TRUE) : ls \in [1..n -> ScanLines]} :
          n \in 1..MaxScanLines }

InitScan ==
  /\ ClassInit /\ NoThreads
  /\ config = ConfigMissing
  /\ \E content \in ScanDocs : call = [op |-> "input", content |-> content]

NextScan == RewriteFirst

SpecScan == InitScan /\ [][NextScan]_vars

\* The indices of the FILE lines and of the placeholder lines
FileIdx(ls) == {i \in 1..Len(ls) : IsFileLine(ls[i])}
NameIdx(ls) == {j \in 1..Len(ls) : ~IsFileLine(ls[j]) /\ EndsWith(ls[j], mouflon_filename)}

\* The output line of input line j: FILE lines give no output line
OutIdx(ls, j) == j - Cardinality({i \in FileIdx(ls) : i < j})

\* The last FILE line before line j, or 0
LastFileBefore(ls, j) == MaxSet({i \in FileIdx(ls) : i < j} \cup {0})

\* The identifier a FILE line conceals, under the decode key of the document
Identifier(line) ==
  Decode(SliceFrom(line, Len(mouflon_file_attr)), PyStr(PDKEY_ZEE), None)

\* The path of the URI ends with this file name
PathEndsWith(uri, name) == EndsWith(UrlSplit(uri).path, <<"/">> \o name)

\* Line j is the first placeholder line after FILE line i, and no FILE line
\* lies between them
ResolvedBy(ls, i, j) ==
  /\ i \in FileIdx(ls) /\ j \in NameIdx(ls) /\ i < j
  /\ \A k \in (i + 1)..(j - 1) : k \notin FileIdx(ls) /\ k \notin NameIdx(ls)

\* The scan went to the end of the document: one output line for each line
\* that is no FILE line
ScannedToEnd(ls, out) == Len(out) = Len(ls) - Cardinality(FileIdx(ls))

\* C11 as stated: a FILE line that fails to decode leaves media.mp4 on the
\* placeholder line it would have resolved, the scan goes on to the end of
\* the document, and every FILE line that decodes is substituted into its
\* placeholder line.
C11At(ls, out) ==
  /\ ScannedToEnd(ls, out)
  /\ \A i \in FileIdx(ls) : \A j \in NameIdx(ls) :
       ResolvedBy(ls, i, j) =>
         IF Identifier(ls[i]).ok
         THEN PathEndsWith(out[OutIdx(ls, j)], Identifier(ls[i]).s)
         ELSE PathEndsWith(out[OutIdx(ls, j)], mouflon_filename)

C11_EveryDecodedSubstituted ==
  FirstPass => C11At(SplitLines(call.content), SplitLines(call.out.val.s))

\* The FILE line decodes to an identifier that is not empty
Decodes(line) == Identifier(line).ok /\ Identifier(line).s # <<>>

\* C11 amended: the same, for FILE lines that decode to a non-empty
\* identifier; a FILE line that decodes to the empty text leaves media.mp4
\* in place like one that fails to decode.
C11AmendedAt(ls, out) ==
  /\ ScannedToEnd(ls, out)
  /\ \A i \in FileIdx(ls) : \A j \in NameIdx(ls) :
       ResolvedBy(ls, i, j) =>
         IF Decodes(ls[i])
         THEN PathEndsWith(out[OutIdx(ls, j)], Identifier(ls[i]).s)
         ELSE PathEndsWith(out[OutIdx(ls, j)], mouflon_filename)

C11_NonEmptyDecodedSubstituted ==
  FirstPass => C11AmendedAt(SplitLines(call.content), SplitLines(call.out.val.s))

\* C11 witness: a FILE line failed at the base64 stage and its placeholder
\* line kept media.mp4; the FILE line after it decoded and was substituted
C11_Witness ==
  /\ FirstPass
  /\ SplitLines(call.content) = <<L_key_zee, L_file_b64, L_media, L_file_two, L_media>>
  /\ Len(SplitLines(call.out.val.s)) = 3
  /\ PathEndsWith(SplitLines(call.out.val.s)[2], mouflon_filename)
  /\ PathEndsWith(SplitLines(call.out.val.s)[3], <<"s","2",".","m","p","4">>)


\* The identifier pending when the scan reaches line j: the last FILE line
\* before j decoded to an identifier that is not empty, and no placeholder
\* line between them has taken it
HasPending(ls, j) ==
  /\ LastFileBefore(ls, j) > 0
  /\ Decodes(ls[LastFileBefore(ls, j)])
  /\ \A k \in (LastFileBefore(ls, j) + 1)..(j - 1) : k \notin NameIdx(ls)

Pending(ls, j) == Identifier(ls[LastFileBefore(ls, j)]).s

C17At(ls, out) ==
  /\ ScannedToEnd(ls, out)
  /\ \A j \in NameIdx(ls) :
       IF HasPending(ls, j)
       THEN PathEndsWith(out[OutIdx(ls, j)], Pending(ls, j))
       ELSE PathEndsWith(out[OutIdx(ls, j)], mouflon_filename)

\* C17: one identifier is pending at most. A placeholder line is substituted
\* exactly when the last FILE line before it decoded and no placeholder
\* line lies between the two, and then with the identifier of that FILE
\* line; every other placeholder line keeps media.mp4: the second one after
\* a substitution, the one after a later FILE line that failed to decode.
\* FILE lines give no output line, so an identifier still pending at the end
\* of the document gives no output.
C17_OnePendingIdentifier ==
  FirstPass => C17At(SplitLines(call.content), SplitLines(call.out.val.s))

\* C17 witness: the second FILE line replaced the identifier of the first,
\* the first placeholder line took it, the second placeholder line kept
\* media.mp4
C17_Witness ==
  /\ FirstPass
  /\ SplitLines(call.content) = <<L_key_zee, L_file_zee, L_file_two, L_media, L_media>>
  /\ Len(SplitLines(call.out.val.s)) = 3
  /\ PathEndsWith(SplitLines(call.out.val.s)[2], <<"s","2",".","m","p","4">>)
  /\ PathEndsWith(SplitLines(call.out.val.s)[3], mouflon_filename)


\* The line with its trailing media.mp4 replaced by the identifier
TrailingReplaced(line, id) ==
  SubSeq(line, 1, Len(line) - Len(mouflon_filename)) \o id

\* Scheme, host and path of the two URIs are the same
SameLocation(a, b) ==
  /\ UrlSplit(a).scheme = UrlSplit(b).scheme
  /\ UrlSplit(a).netloc = UrlSplit(b).netloc
  /\ UrlSplit(a).path = UrlSplit(b).path

C18At(ls, out) ==
  \A j \in NameIdx(ls) :
    HasPending(ls, j) =>
      SameLocation(out[OutIdx(ls, j)], TrailingReplaced(ls[j], Pending(ls, j)))

\* C18: on a resolved placeholder line the trailing media.mp4 alone is
\* replaced by the identifier: scheme, host and every directory of the path
\* are those of the input line, also a directory named media.mp4.
C18_OnlyTrailingTokenReplaced ==
  FirstPass => C18At(SplitLines(call.content), SplitLines(call.out.val.s))


(***************************************************************************)
(* _append_params on its own: SpecParams, claims C12 and C13               *)
(***************************************************************************)

\* Hosts: three delivery-edge hosts, a foreign host, a foreign host whose
\* name holds an edge domain, and no host (a relative URI)
H_com == <<"e",".","d","o","p","p","i","o","c","d","n",".","c","o","m">>
H_net == <<"d","o","p","p","i","o","c","d","n",".","n","e","t">>
H_org == <<"c","d","n",".","d","o","p","p","i","o","c","d","n",".","o","r","g">>
H_other == <<"e","x","a","m","p","l","e",".","c","o","m">>
H_inside == <<"e",".","d","o","p","p","i","o","c","d","n",".","c","o","m",".","e","v","i","l",".","o","r","g">>
ParamHosts == {H_com, H_net, H_org, H_other, H_inside, <<>>}

\* Queries: none, one parameter, two, two in the other order, one name
\* twice, one name twice around another, a psch already there
Q_a == <<"a","=","1">>
Q_ab == <<"a","=","1","&","b","=","2">>
Q_ba == <<"b","=","2","&","a","=","1">>
Q_aa == <<"a","=","1","&","a","=","2">>
Q_aba == <<"a","=","1","&","b","=","2","&","a","=","3">>
Q_psch == <<"a","=","1","&","p","s","c","h","=","v","9">>
ParamQueries == {<<>>, Q_a, Q_ab, Q_ba, Q_aa, Q_aba, Q_psch}
ParamFragments == {<<>>, <<"#","f">>}
P_path == <<"/","s","e","g",".","m","p","4">>

ParamUrl(host, query, fragment) ==
  (IF host = <<>> THEN <<>> ELSE S_https \o host)
  \o P_path \o (IF query = <<>> THEN <<>> ELSE <<"?">> \o query) \o fragment

ParamUrls ==
  {ParamUrl(h, q, f) : h \in ParamHosts, q \in ParamQueries, f \in ParamFragments}

\* psch and pkey of the enclosing m3u_decoder call: of a directive, or None
\* when the manifest has none
ParamFields == {[psch |-> PyStr(S_v1), pkey |-> PyStr(PKEY_ZEE)],
                [psch |-> None, pkey |-> None]}

InitParams ==
  /\ ClassInit /\ NoThreads
  /\ config = ConfigMissing
  /\ \E url \in ParamUrls : \E m \in ParamFields :
       call = [op |-> "url", url |-> url, psch |-> m.psch, pkey |-> m.pkey]

\* _append_params(url)
AppendTo ==
  /\ call.op = "url"
  /\ call' = [op |-> "_append_params", url |-> call.url, psch |-> call.psch,
              pkey |-> call.pkey, out |-> AppendParams(call.url, call.psch, call.pkey)]
  /\ UNCHANGED <<config, keys_loaded, mouflon_keys, keys_warned, cached_keys, pc, frame>>

NextParams == AppendTo

SpecParams == InitParams /\ [][NextParams]_vars

\* The (name, value) pairs of the query of a URI, in order
QueryPairs(uri) == ParseQsl(UrlSplit(uri).query)

\* a is the beginning of b
IsPrefixOf(a, b) == Len(a) <= Len(b) /\ SubSeq(b, 1, Len(a)) = a

\* C12: when _append_params adds psch or pkey to a URI, the parameters of
\* the input are the first parameters of the output, each as often as in the
\* input, with its value and in the same order; the parameters after them
\* are psch and pkey.
C12_OldParamsKept ==
  (call.op = "_append_params" /\ call.out # call.url)
  => /\ IsPrefixOf(QueryPairs(call.url), QueryPairs(call.out))
     /\ \A i \in (Len(QueryPairs(call.url)) + 1)..Len(QueryPairs(call.out)) :
          QueryPairs(call.out)[i][1] \in {S_psch, S_pkey}

\* The host of a URI of ParamUrls: they have neither userinfo nor port
HostOf(uri) == UrlSplit(uri).netloc

EndsWithEdge(host) == \E h \in EdgeHosts : EndsWith(host, h)

\* C13: a URI is given psch or pkey only if its host ends with
\* doppiocdn.com, doppiocdn.net or doppiocdn.org; a URI of any other host,
\* and a URI without host, is returned with the query it had.
C13_OnlyEdgeHostsAugmented ==
  (call.op = "_append_params" /\ ~EndsWithEdge(HostOf(call.url)))
  => /\ call.out = call.url
     /\ UrlSplit(call.out).query = UrlSplit(call.url).query


(***************************************************************************)
(* getPlaylistVariants: SpecVariants, claim C19                            *)
(***************************************************************************)

\* RoomIdBot.getPlaylistVariants(m3u_data=...), which src/ does not hold:
\* the URLs of the variants of the manifest, its URI lines in order
IsUriLine(line) == line # <<>> /\ line[1] # "#"
Variants(m3u8_doc) == SelectSeq(SplitLines(m3u8_doc), IsUriLine)

\* Lines 302-308: a key-id that resolved to no decode key gives way to the
\* first entry of the store, whose key-id the print at line 308 slices
OverridePkey(st, pkey, r) ==
  IF r.kind = "raise" THEN r
  ELSE IF r.val = None /\ IsTrue(pkey) /\ st.keys # None /\ st.keys.d # EmptyDict THEN
    IF Subscriptable(st.keys.d[1].k)
    THEN Return([pkey |-> st.keys.d[1].k, pdkey |-> st.keys.d[1].v])
    ELSE Raise("TypeError")
  ELSE Return([pkey |-> pkey, pdkey |-> r.val])

\* Line 318: the URL of a variant with psch and pkey after it
VariantUrl(url, psch, pkey) ==
  url \o (IF Contains(url, <<"?">>) THEN <<"&">> ELSE <<"?">>)
      \o S_psch \o <<"=">> \o psch \o <<"&">> \o S_pkey \o <<"=">> \o pkey

\* Lines 315-321
VariantsWith(variants, psch, pkey) ==
  IF IsTrue(psch) /\ IsTrue(pkey)
  THEN [i \in 1..Len(variants) |-> VariantUrl(variants[i], psch.s, pkey.s)]
  ELSE variants

\* Lines 310-321: no decode key logs the failure and returns []
VariantsOrFailure(m3u8_doc, psch, k) ==
  IF k.kind = "raise" THEN [kind |-> "raise", exc |-> k.exc, failed |-> FALSE]
  ELSE IF k.val.pdkey = None THEN [kind |-> "return", val |-> <<>>, failed |-> TRUE]
  ELSE [kind |-> "return", failed |-> FALSE,
        val |-> VariantsWith(Variants(m3u8_doc), psch, k.val.pkey)]

\* Line 301: getMouflonDecKey(pkey) if pkey else None
VariantDecKey(st, cfg, pkey) ==
  IF IsTrue(pkey) THEN GetMouflonDecKey(st, cfg, pkey)
  ELSE [st |-> st, out |-> Return(None)]

VariantsAfter(m3u8_doc, psch, pkey, g) ==
  [st  |-> g.st,
   out |-> VariantsOrFailure(m3u8_doc, psch, OverridePkey(g.st, pkey, g.out))]

VariantsFor(st, cfg, m3u8_doc, m) ==
  VariantsAfter(m3u8_doc, DefaultPsch(m), m.pkey, VariantDecKey(st, cfg, m.pkey))

\* Lines 295-321 of getPlaylistVariants, on the manifest the request of
\* lines 282-293 has returned
GetPlaylistVariants(st, cfg, m3u8_doc) ==
  VariantsFor(st, cfg, m3u8_doc, GetMouflonFromM3U(m3u8_doc))

\* Master manifests: with the directive of a key-id of the store, of a
\* key-id of no store, and without directive
VariantHeads == {<<L_extm3u>>, <<L_extm3u, L_key_zee>>, <<L_extm3u, L_key_unknown>>}
VariantBodies == {<<L_seg>>, <<L_seg_q>>, <<L_seg, L_seg_q>>, <<L_seg_q, L_seg>>}
VariantDocs == {Text(h \o b, NL, TRUE) : h \in VariantHeads, b \in VariantBodies}

\* The instance exists: __init__ has run _loadMouflonKeys on some
\* mouflon_keys.json
InitVariants ==
  /\ NoThreads
  /\ config \in Configs
  /\ keys_loaded = LoadMouflonKeys(ClassInitState, config).loaded
  /\ mouflon_keys = LoadMouflonKeys(ClassInitState, config).keys
  /\ keys_warned = LoadMouflonKeys(ClassInitState, config).warned
  /\ cached_keys = None
  /\ call \in {[op |-> "fetched", content |-> d] : d \in VariantDocs}

PlaylistVariantsEnds(r) ==
  /\ SetClassState(r.st)
  /\ call' = [op |-> "getPlaylistVariants", content |-> call.content, out |-> r.out]
  /\ UNCHANGED <<config, cached_keys, pc, frame>>

PlaylistVariants ==
  /\ call.op = "fetched"
  /\ PlaylistVariantsEnds(GetPlaylistVariants(ClassState, config, call.content))

NextVariants == PlaylistVariants

SpecVariants == InitVariants /\ [][NextVariants]_vars

\* C19: for a manifest without encryption directive getPlaylistVariants
\* does not take the path of the failed decryption key and returns the
\* variants of the manifest with their URLs as they are, whatever the key
\* store holds.
C19_NoDirectiveNoFailure ==
  (call.op = "getPlaylistVariants" /\ NoMouflon(call.content))
  => /\ call.out.kind = "return"
     /\ ~call.out.failed
     /\ call.out.val = Variants(call.content)

(***************************************************************************)
(* _decode in several threads: SpecCache, claim C21                        *)
(*                                                                         *)
(* Each read and each write of the class attribute _cached_keys is a step  *)
(* of its own.  A dict object has an identity: _cached_keys holds the dict *)
(* it names now (id, items d); the dicts line 195 has replaced are kept in *)
(* call.orphans, since a thread may still hold one of them.                *)
(***************************************************************************)

CacheKeys == {PDKEY_ZEE, PDKEY_OOK}

\* The payload of L_file_zee, and one that is no base64
CachePayloads ==
  {SliceFrom(L_file_zee, Len(mouflon_file_attr)), SliceFrom(L_file_b64, Len(mouflon_file_attr))}

InitCache ==
  /\ ClassInit /\ NoThreads
  /\ config = ConfigMissing
  /\ call = [op |-> "heap", orphans |-> <<>>]

\* The locals of _decode
DecodeFrame(encrypted_b64, key) ==
  [op |-> "_decode", encrypted_b64 |-> encrypted_b64, key |-> key,
   ref |-> 0, hash_bytes |-> <<>>, out |-> [ok |-> FALSE, err |-> "running"]]

\* _decode(encrypted_b64, key) is called
StartDecode(t, encrypted_b64, key) ==
  /\ pc[t] = "idle"
  /\ Goto(t, "cache_none", DecodeFrame(encrypted_b64, key))
  /\ UNCHANGED <<config, keys_loaded, mouflon_keys, keys_warned, cached_keys, call>>

\* Line 194: if cls._cached_keys is None
CacheNone(t) ==
  /\ pc[t] = "cache_none"
  /\ Goto(t, IF cached_keys = None THEN "cache_new" ELSE "cache_in", frame[t])
  /\ UNCHANGED <<config, keys_loaded, mouflon_keys, keys_warned, cached_keys, call>>

\* The dicts made so far
DictCount == Len(call.orphans) + (IF cached_keys = None THEN 0 ELSE 1)

\* Line 195: cls._cached_keys = {}, a new dict in place of the one the
\* attribute named, if any
CacheNew(t) ==
  /\ pc[t] = "cache_new"
  /\ cached_keys' = [t |-> "dict", d |-> EmptyDict, id |-> DictCount + 1]
  /\ call' = IF cached_keys = None THEN call
             ELSE [call EXCEPT !.orphans =
                     Append(@, [id |-> cached_keys.id, d |-> cached_keys.d])]
  /\ Goto(t, "cache_in", frame[t])
  /\ UNCHANGED <<config, keys_loaded, mouflon_keys, keys_warned>>

\* Line 196: key in cls._cached_keys
CacheIn(t) ==
  /\ pc[t] = "cache_in"
  /\ Goto(t, IF InDict(cached_keys.d, PyStr(frame[t].key)) THEN "cache_get" ELSE "cache_load",
          frame[t])
  /\ UNCHANGED <<config, keys_loaded, mouflon_keys, keys_warned, cached_keys, call>>

\* Line 196: cls._cached_keys[key], KeyError when the dict the attribute
\* names now lacks the key
CacheGet(t) ==
  /\ pc[t] = "cache_get"
  /\ IF InDict(cached_keys.d, PyStr(frame[t].key))
     THEN Goto(t, "xor", [frame[t] EXCEPT
                            !.hash_bytes = DictGet(cached_keys.d, PyStr(frame[t].key))])
     ELSE Goto(t, "done", [frame[t] EXCEPT !.out = [ok |-> FALSE, err |-> "KeyError"]])
  /\ UNCHANGED <<config, keys_loaded, mouflon_keys, keys_warned, cached_keys, call>>

\* Line 197: cls._cached_keys is read for setdefault; the digest is
\* computed before setdefault runs
CacheLoad(t) ==
  /\ pc[t] = "cache_load"
  /\ Goto(t, "cache_setdefault", [frame[t] EXCEPT !.ref = cached_keys.id])
  /\ UNCHANGED <<config, keys_loaded, mouflon_keys, keys_warned, cached_keys, call>>

\* dict.setdefault(key, value): the items after it
SetDefault(d, key, value) == IF InDict(d, key) THEN d ELSE DictSet(d, key, value)

\* The items of the replaced dict id
OrphanAt(id) == CHOOSE i \in 1..Len(call.orphans) : call.orphans[i].id = id

\* Line 197: setdefault(key, sha256(key).digest()) on the dict read before,
\* which the attribute may name no more
CacheSetDefaultOn(t, key, d) ==
  /\ IF frame[t].ref = cached_keys.id
     THEN /\ cached_keys' = [cached_keys EXCEPT !.d = d]
          /\ UNCHANGED call
     ELSE /\ call' = [call EXCEPT !.orphans[OrphanAt(frame[t].ref)].d = d]
          /\ UNCHANGED cached_keys
  /\ Goto(t, "xor", [frame[t] EXCEPT !.hash_bytes = DictGet(d, key)])
  /\ UNCHANGED <<config, keys_loaded, mouflon_keys, keys_warned>>

CacheSetDefault(t) ==
  /\ pc[t] = "cache_setdefault"
  /\ CacheSetDefaultOn(t, PyStr(frame[t].key),
       SetDefault(IF frame[t].ref = cached_keys.id THEN cached_keys.d
                  ELSE call.orphans[OrphanAt(frame[t].ref)].d,
                  PyStr(frame[t].key), Sha256Digest(frame[t].key)))

\* Lines 198-199: base64, XOR with the mask, UTF-8
DecodeXor(t) ==
  /\ pc[t] = "xor"
  /\ Goto(t, "done",
          [frame[t] EXCEPT !.out = DecodeBytes(B64DecodePadded(frame[t].encrypted_b64),
                                               frame[t].hash_bytes)])
  /\ UNCHANGED <<config, keys_loaded, mouflon_keys, keys_warned, cached_keys, call>>

NextCache ==
  \E t \in Threads :
    \/ \E b \in CachePayloads : \E key \in CacheKeys : StartDecode(t, b, key)
    \/ CacheNone(t)
    \/ CacheNew(t)
    \/ CacheIn(t)
    \/ CacheGet(t)
    \/ CacheLoad(t)
    \/ CacheSetDefault(t)
    \/ DecodeXor(t)
    \/ Finish(t)

SpecCache == InitCache /\ [][NextCache]_vars

\* Every entry of the dict maps a decode key to its digest
DigestsOnly(d) == \A i \in 1..Len(d) : d[i].v = Sha256Digest(d[i].k.s)

\* C21: under every interleaving of threads in _decode, every entry of the
\* cache maps a decode key K to the digest of K, and every _decode that has
\* ended returned what it returns with an empty cache.
C21_CacheSafeUnderThreads ==
  /\ cached_keys # None => DigestsOnly(cached_keys.d)
  /\ \A t \in Threads :
       (pc[t] = "done" /\ frame[t].op = "_decode")
         => frame[t].out = Decode(frame[t].encrypted_b64, PyStr(frame[t].key), None)
=============================================================================
